---- MODULE Spec2Model ----
(***************************************************************************)
(* Rock-paper-scissors match session core.                                 *)
(*                                                                         *)
(* Three room engines live in the repository and are modelled side by     *)
(* side, each under its own specification:                                 *)
(*   Spec    - RoomFSM            (src/ggggaaaaame2.py)                    *)
(*   SpecT   - FSM                (src/server/game/transitions.py)         *)
(*   SpecWs  - ConnectionManager  (src/server/api/routes/ws.py)            *)
(***************************************************************************)
EXTENDS Integers, Sequences, FiniteSets, TLC

\* ------------------------------------------------------------------ bounds
MaxRound == 3
MaxWinsNeeded == 2
MaxWsScore == 3
MaxWsRound == 2
\* the same two limits where the handlers of ws.py run as interleaved coroutines
MaxAsyncScore == 3
MaxAsyncRound == 2
\* rounds without a winner in a match that both participants play to its end
MaxDraws == 1
\* services.ConnectionManager: dict objects made for the room, and calls of
\* disconnect suspended in ws.close() at one time
MaxDicts == 2
MaxSuspended == 2

\* ------------------------------------------------------------ value domains
None == "none"
\* participant ids: two players and a third who tries to get in
Pids == {"P1", "P2", "P3"}
\* best_of is odd: the values whose wins_needed is within the bound
BestOfs == {2 * w - 1 : w \in 1..MaxWinsNeeded}

\* server/game/models.py
DefaultBestOf == 5
Move == {"rock", "paper", "scissors"}
Outcome == {"win", "lose", "draw"}

\* server/game/states.py (READY_CHECK as used by RoomFSM)
RoomState == {"EMPTY", "ONE_WAITING", "READY_CHECK", "ROUND_AWAIT_MOVES",
              "ROUND_RESULT", "MATCH_OVER"}
PlayerState == {"DISCONNECTED", "CONNECTED", "READY", "MOVED", "BETWEEN_ROUNDS"}

\* ------------------------------------------------------------------- rules
\* server/game/rules.py: the table of what each move beats
wins == [m \in Move |-> CASE m = "paper" -> "rock"
                          [] m = "rock" -> "scissors"
                          [] m = "scissors" -> "paper"]

\* judge looking up what b beats
judge_of_b(a, b) ==
    IF a = b THEN "draw" ELSE IF wins[b] = a THEN "win" ELSE "lose"

judge(a, b) ==
    IF a = b THEN "draw" ELSE IF wins[a] = b THEN "win" ELSE "lose"

VARIABLES
    ctx,        \* RoomFSM.ctx : RoomCtx (with the room state RoomFSM keeps on it)
    emitted,    \* events passed to RoomFSM.emit by the last call, in order
    raised,     \* exception raised by the last call, or None
    called,     \* the public method of RoomFSM called last, or None
    tfsm,       \* transitions.FSM: its state and the RoomCtx it is handed
    tret,       \* transitions.FSM: what the last call returned or raised
    cm,         \* ws.ConnectionManager: room_players, room_state, connections
    sent,       \* ws: messages sent by the last handler, in order
    wraised,    \* ws: exception that ended the last handler, or None
    pc,         \* ws: where the coroutine of each websocket is suspended, and its locals
    lock,       \* ws: the coroutine holding room_locks[room_name], or None
    armed,      \* RoomFSM's caller: the rounds whose timer is running
    rooms,      \* services.ConnectionManager.rooms, and the dict objects it made
    bc,         \* services.ConnectionManager.broadcast: where it is suspended, its locals
    dpc         \* services.ConnectionManager.disconnect: the calls suspended in ws.close()

fsmvars == <<ctx, emitted, raised, called>>
tvars == <<tfsm, tret>>
wsvars == <<cm, sent, wraised>>
avars == <<pc, lock>>
timervars == <<armed>>
svcvars == <<rooms, bc, dpc>>
vars == <<ctx, emitted, raised, called, tfsm, tret, cm, sent, wraised, pc, lock,
          armed, rooms, bc, dpc>>

\* ---------------------------------------------------------------- RoomFSM
PlayerCtx(pid, st) == [pid |-> pid, state |-> st, last_move |-> None, score |-> 0]

RoomCtx(best_of) ==
    [state |-> "EMPTY", best_of |-> best_of, round_id |-> 0,
     players |-> <<>>, last_result |-> None]

HasPid(c, pid) == \E i \in DOMAIN c.players : c.players[i].pid = pid
IndexOf(c, pid) == CHOOSE i \in DOMAIN c.players : c.players[i].pid = pid
Player(c, pid) == c.players[IndexOf(c, pid)]

score_view(c) == [i \in DOMAIN c.players |-> <<c.players[i].pid, c.players[i].score>>]

\* an emitted event: its type and the fields of its payload the properties use
Event(type, c, pid, outcome, winner) ==
    [type |-> type, pid |-> pid, round_id |-> c.round_id, outcome |-> outcome,
     winner |-> winner, state |-> c.state, score |-> score_view(c)]

\* the result of one call: the context it leaves, what it emitted, what it raised
Ok(c, evs) == [ctx |-> c, emitted |-> evs, raised |-> None]
Raise(c, evs) == [ctx |-> c, emitted |-> evs, raised |-> "TransitionError"]
\* a call that runs after evs were emitted: its events follow them
Then(evs, r) == [r EXCEPT !.emitted = evs \o r.emitted]

\* wins_needed asking for every round of the match
wins_needed_all_rounds(c) == c.best_of

wins_needed(c) == (c.best_of \div 2) + 1

match_winner_pid(c) ==
    LET need == wins_needed(c)
        hit == {i \in DOMAIN c.players : c.players[i].score >= need}
    IN  IF hit = {} THEN None
        ELSE c.players[CHOOSE i \in hit : \A j \in hit : i <= j].pid

has_match_winner(c) == match_winner_pid(c) # None

\* _reset_scores_and_round without the reset of round_id
reset_scores_keeps_round(c) ==
    [c EXCEPT !.last_result = None,
              !.players = [i \in DOMAIN c.players |->
                             [c.players[i] EXCEPT !.score = 0, !.last_move = None]]]

reset_scores_and_round(c) ==
    [c EXCEPT !.round_id = 0, !.last_result = None,
              !.players = [i \in DOMAIN c.players |->
                             [c.players[i] EXCEPT !.score = 0, !.last_move = None]]]

set_players(c, st) ==
    [c EXCEPT !.players = [i \in DOMAIN c.players |-> [c.players[i] EXCEPT !.state = st]]]

recalc_room_state_after_join(c) ==
    LET cnt == Len(c.players)
    IN  IF cnt = 0 THEN [c EXCEPT !.state = "EMPTY"]
        ELSE IF cnt = 1 THEN [c EXCEPT !.state = "ONE_WAITING"]
        ELSE [c EXCEPT !.state = "READY_CHECK"]

\* _recalc_room_state_after_leave leaving the survivor's state as it was
recalc_room_state_after_leave_keeps_state(c) ==
    LET cnt == Len(c.players)
    IN  IF cnt = 0
        THEN Ok(reset_scores_and_round([c EXCEPT !.state = "EMPTY"]), <<>>)
        ELSE LET c1 == [c EXCEPT !.state = "ONE_WAITING"]
             IN  Ok(c1, <<Event("MATCH_ABORTED", c1, None, None, None)>>)

\* returns the context and the events emitted
recalc_room_state_after_leave(c) ==
    LET cnt == Len(c.players)
    IN  IF cnt = 0
        THEN Ok(reset_scores_and_round([c EXCEPT !.state = "EMPTY"]), <<>>)
        ELSE LET c1 == [c EXCEPT !.players[1].state = "CONNECTED",
                                 !.state = "ONE_WAITING"]
             IN  Ok(c1, <<Event("MATCH_ABORTED", c1, None, None, None)>>)

player_join(c, pid) ==
    IF HasPid(c, pid)
    THEN LET c1 == [c EXCEPT !.players[IndexOf(c, pid)].state = "CONNECTED"]
             c2 == recalc_room_state_after_join(c1)
         IN  Ok(c2, <<Event("PLAYER_REJOINED", c2, pid, None, None)>>)
    ELSE IF Len(c.players) >= 2
    THEN Raise(c, <<>>)
    ELSE LET c1 == [c EXCEPT !.players = Append(c.players, PlayerCtx(pid, "CONNECTED"))]
             c2 == recalc_room_state_after_join(c1)
         IN  Ok(c2, <<Event("PLAYER_JOINED", c2, pid, None, None)>>)

player_leave(c, pid) ==
    IF ~HasPid(c, pid) THEN Ok(c, <<>>)
    ELSE LET c1 == [c EXCEPT !.players =
                        SelectSeq(c.players, LAMBDA p : p.pid # pid)]
             r == recalc_room_state_after_leave(c1)
         IN  Ok(r.ctx, r.emitted \o <<Event("PLAYER_LEFT", r.ctx, pid, None, None)>>)

\* _start_round without the clearing of last_move
start_round_keep_moves(c) ==
    IF c.state # "READY_CHECK" THEN Raise(c, <<>>)
    ELSE LET c1 == [c EXCEPT !.round_id = c.round_id + 1,
                             !.players = [i \in DOMAIN c.players |->
                                 [c.players[i] EXCEPT !.state = "READY"]],
                             !.state = "ROUND_AWAIT_MOVES"]
         IN  Ok(c1, <<Event("ROUND_START", c1, None, None, None)>>)

start_round(c) ==
    IF c.state # "READY_CHECK" THEN Raise(c, <<>>)
    ELSE LET c1 == [c EXCEPT !.round_id = c.round_id + 1,
                             !.players = [i \in DOMAIN c.players |->
                                 [c.players[i] EXCEPT !.last_move = None,
                                                      !.state = "READY"]],
                             !.state = "ROUND_AWAIT_MOVES"]
         IN  Ok(c1, <<Event("ROUND_START", c1, None, None, None)>>)

after_round(c, draw) ==
    IF has_match_winner(c)
    THEN LET c1 == set_players([c EXCEPT !.state = "MATCH_OVER"], "BETWEEN_ROUNDS")
         IN  Ok(c1, <<Event("MATCH_OVER", c1, None, None, match_winner_pid(c1))>>)
    ELSE LET c1 == set_players([c EXCEPT !.state = "READY_CHECK"], "BETWEEN_ROUNDS")
         IN  Ok(c1, <<Event("ASK_READY", c1, None, None, None)>>)

set_ready(c, pid, ready) ==
    IF c.state # "READY_CHECK" THEN Raise(c, <<>>)
    ELSE IF ~HasPid(c, pid) THEN Raise(c, <<>>)
    ELSE IF Player(c, pid).state \notin {"CONNECTED", "BETWEEN_ROUNDS", "READY"}
    THEN Raise(c, <<>>)
    ELSE LET c1 == [c EXCEPT !.players[IndexOf(c, pid)].state =
                                 IF ready THEN "READY" ELSE "CONNECTED"]
             ev == Event(IF ready THEN "PLAYER_READY" ELSE "PLAYER_UNREADY",
                         c1, pid, None, None)
         IN  IF Len(c1.players) # 2 THEN Raise(c1, <<ev>>)
             ELSE IF \A i \in DOMAIN c1.players : c1.players[i].state = "READY"
             THEN Then(<<ev>>, start_round(c1))
             ELSE Ok(c1, <<ev>>)

resolve_round_loser_scores(c) ==
    IF c.state # "ROUND_AWAIT_MOVES" THEN Raise(c, <<>>)
    ELSE IF Len(c.players) # 2 THEN Raise(c, <<>>)
    ELSE LET p1 == c.players[1]
             p2 == c.players[2]
             outcome == judge(p1.last_move, p2.last_move)
         IN  IF outcome = "draw"
             THEN LET c1 == [c EXCEPT !.last_result = "draw"]
                  IN  Then(<<Event("ROUND_RESULT", c1, None, "draw", None)>>,
                           after_round(c1, TRUE))
             ELSE LET w == IF outcome = "win" THEN 2 ELSE 1
                      c1 == [c EXCEPT !.players[w].score = c.players[w].score + 1,
                                      !.last_result = c.players[w].pid \o " wins"]
                  IN  Then(<<Event("ROUND_RESULT", c1, None, "win", c.players[w].pid)>>,
                           after_round(c1, FALSE))

\* _resolve_round giving the first participant the point of a drawn round
resolve_round_draw_to_first(c) ==
    IF c.state # "ROUND_AWAIT_MOVES" THEN Raise(c, <<>>)
    ELSE IF Len(c.players) # 2 THEN Raise(c, <<>>)
    ELSE LET p1 == c.players[1]
             p2 == c.players[2]
             outcome == judge(p1.last_move, p2.last_move)
             w == IF outcome = "lose" THEN 2 ELSE 1
             c1 == [c EXCEPT !.players[w].score = c.players[w].score + 1,
                             !.last_result = c.players[w].pid \o " wins"]
         IN  Then(<<Event("ROUND_RESULT", c1, None, "win", c.players[w].pid)>>,
                  after_round(c1, FALSE))

\* _resolve_round taking the point it gives the winner from the loser
resolve_round_zero_sum(c) ==
    IF c.state # "ROUND_AWAIT_MOVES" THEN Raise(c, <<>>)
    ELSE IF Len(c.players) # 2 THEN Raise(c, <<>>)
    ELSE LET p1 == c.players[1]
             p2 == c.players[2]
             outcome == judge(p1.last_move, p2.last_move)
         IN  IF outcome = "draw"
             THEN LET c1 == [c EXCEPT !.last_result = "draw"]
                  IN  Then(<<Event("ROUND_RESULT", c1, None, "draw", None)>>,
                           after_round(c1, TRUE))
             ELSE LET w == IF outcome = "win" THEN 1 ELSE 2
                      c1 == [c EXCEPT !.players[w].score = c.players[w].score + 1,
                                      !.players[3 - w].score = c.players[3 - w].score - 1,
                                      !.last_result = c.players[w].pid \o " wins"]
                  IN  Then(<<Event("ROUND_RESULT", c1, None, "win", c.players[w].pid)>>,
                           after_round(c1, FALSE))

resolve_round(c) ==
    IF c.state # "ROUND_AWAIT_MOVES" THEN Raise(c, <<>>)
    ELSE IF Len(c.players) # 2 THEN Raise(c, <<>>)
    ELSE LET p1 == c.players[1]
             p2 == c.players[2]
             outcome == judge(p1.last_move, p2.last_move)
         IN  IF outcome = "draw"
             THEN LET c1 == [c EXCEPT !.last_result = "draw"]
                  IN  Then(<<Event("ROUND_RESULT", c1, None, "draw", None)>>,
                           after_round(c1, TRUE))
             ELSE LET w == IF outcome = "win" THEN 1 ELSE 2
                      c1 == [c EXCEPT !.players[w].score = c.players[w].score + 1,
                                      !.last_result = c.players[w].pid \o " wins"]
                  IN  Then(<<Event("ROUND_RESULT", c1, None, "win", c.players[w].pid)>>,
                           after_round(c1, FALSE))

\* make_move judging in arrival order (the mover second) but crediting by seat
make_move_arrival(c, pid, move) ==
    IF c.state # "ROUND_AWAIT_MOVES" THEN Raise(c, <<>>)
    ELSE IF ~HasPid(c, pid) THEN Raise(c, <<>>)
    ELSE IF Player(c, pid).state \notin {"READY", "MOVED"} THEN Raise(c, <<>>)
    ELSE IF Player(c, pid).state = "MOVED"
    THEN Ok(c, <<Event("MOVE_DUPLICATE", c, pid, None, None)>>)
    ELSE LET c1 == [c EXCEPT !.players[IndexOf(c, pid)].last_move = move,
                             !.players[IndexOf(c, pid)].state = "MOVED"]
             ev == Event("MOVE_ACCEPTED", c1, pid, None, None)
         IN  IF Len(c1.players) # 2 THEN Raise(c1, <<ev>>)
             ELSE IF \A i \in DOMAIN c1.players : c1.players[i].state = "MOVED"
             THEN LET me == IndexOf(c1, pid)
                      outcome == judge(c1.players[3 - me].last_move, c1.players[me].last_move)
                  IN  IF outcome = "draw"
                      THEN LET c2 == [c1 EXCEPT !.last_result = "draw"]
                           IN  Then(<<ev, Event("ROUND_RESULT", c2, None, "draw", None)>>,
                                    after_round(c2, TRUE))
                      ELSE LET w == IF outcome = "win" THEN 1 ELSE 2
                               c2 == [c1 EXCEPT !.players[w].score = c1.players[w].score + 1,
                                                !.last_result = c1.players[w].pid \o " wins"]
                           IN  Then(<<ev, Event("ROUND_RESULT", c2, None, "win",
                                                c1.players[w].pid)>>,
                                    after_round(c2, FALSE))
             ELSE Ok(c1, <<ev>>)

make_move(c, pid, move) ==
    IF c.state # "ROUND_AWAIT_MOVES" THEN Raise(c, <<>>)
    ELSE IF ~HasPid(c, pid) THEN Raise(c, <<>>)
    ELSE IF Player(c, pid).state \notin {"READY", "MOVED"} THEN Raise(c, <<>>)
    ELSE IF Player(c, pid).state = "MOVED"
    THEN Ok(c, <<Event("MOVE_DUPLICATE", c, pid, None, None)>>)
    ELSE LET c1 == [c EXCEPT !.players[IndexOf(c, pid)].last_move = move,
                             !.players[IndexOf(c, pid)].state = "MOVED"]
             ev == Event("MOVE_ACCEPTED", c1, pid, None, None)
         IN  IF Len(c1.players) # 2 THEN Raise(c1, <<ev>>)
             ELSE IF \A i \in DOMAIN c1.players : c1.players[i].state = "MOVED"
             THEN Then(<<ev>>, resolve_round(c1))
             ELSE Ok(c1, <<ev>>)

\* round_timeout giving the forfeit to the participant who did not move
round_timeout_wrong_winner(c) ==
    IF c.state # "ROUND_AWAIT_MOVES" THEN Raise(c, <<>>)
    ELSE IF Len(c.players) # 2 THEN Raise(c, <<>>)
    ELSE IF \A i \in DOMAIN c.players : c.players[i].state = "MOVED"
    THEN Ok(c, <<>>)
    ELSE LET moved == SelectSeq(c.players, LAMBDA p : p.last_move # None)
         IN  IF Len(moved) = 0
             THEN LET c1 == [c EXCEPT !.last_result = "draw"]
                  IN  Then(<<Event("ROUND_TIMEOUT_DRAW", c1, None, "draw", None)>>,
                           after_round(c1, TRUE))
             ELSE LET winner_pid == moved[1].pid
                      c1 == [c EXCEPT
                               !.players = [i \in DOMAIN c.players |->
                                   IF c.players[i].pid # winner_pid
                                   THEN [c.players[i] EXCEPT !.score = @ + 1]
                                   ELSE c.players[i]],
                               !.last_result = winner_pid \o " wins by timeout"]
                  IN  Then(<<Event("ROUND_TIMEOUT_WIN", c1, None, "win", winner_pid)>>,
                           after_round(c1, FALSE))

\* round_timeout without its _require_state guard
round_timeout_any_state(c) ==
    IF Len(c.players) # 2 THEN Raise(c, <<>>)
    ELSE IF \A i \in DOMAIN c.players : c.players[i].state = "MOVED"
    THEN Ok(c, <<>>)
    ELSE LET moved == SelectSeq(c.players, LAMBDA p : p.last_move # None)
         IN  IF Len(moved) = 0
             THEN LET c1 == [c EXCEPT !.last_result = "draw"]
                  IN  Then(<<Event("ROUND_TIMEOUT_DRAW", c1, None, "draw", None)>>,
                           after_round(c1, TRUE))
             ELSE LET winner_pid == moved[1].pid
                      c1 == [c EXCEPT
                               !.players = [i \in DOMAIN c.players |->
                                   IF c.players[i].pid = winner_pid
                                   THEN [c.players[i] EXCEPT !.score = @ + 1]
                                   ELSE c.players[i]],
                               !.last_result = winner_pid \o " wins by timeout"]
                  IN  Then(<<Event("ROUND_TIMEOUT_WIN", c1, None, "win", winner_pid)>>,
                           after_round(c1, FALSE))

round_timeout(c) ==
    IF c.state # "ROUND_AWAIT_MOVES" THEN Raise(c, <<>>)
    ELSE IF Len(c.players) # 2 THEN Raise(c, <<>>)
    ELSE IF \A i \in DOMAIN c.players : c.players[i].state = "MOVED"
    THEN Ok(c, <<>>)
    ELSE LET moved == SelectSeq(c.players, LAMBDA p : p.last_move # None)
         IN  IF Len(moved) = 0
             THEN LET c1 == [c EXCEPT !.last_result = "draw"]
                  IN  Then(<<Event("ROUND_TIMEOUT_DRAW", c1, None, "draw", None)>>,
                           after_round(c1, TRUE))
             ELSE LET winner_pid == moved[1].pid
                      c1 == [c EXCEPT
                               !.players = [i \in DOMAIN c.players |->
                                   IF c.players[i].pid = winner_pid
                                   THEN [c.players[i] EXCEPT !.score = @ + 1]
                                   ELSE c.players[i]],
                               !.last_result = winner_pid \o " wins by timeout"]
                  IN  Then(<<Event("ROUND_TIMEOUT_WIN", c1, None, "win", winner_pid)>>,
                           after_round(c1, FALSE))

\* restart_match without the call of _reset_scores_and_round
restart_match_keeps_scores(c) ==
    IF Len(c.players) # 2 THEN Raise(c, <<>>)
    ELSE LET c2 == [c EXCEPT !.players = [i \in DOMAIN c.players |->
                                   [c.players[i] EXCEPT !.state = "CONNECTED",
                                                        !.last_move = None]],
                             !.state = "READY_CHECK"]
         IN  Ok(c2, <<Event("MATCH_RESTARTED", c2, None, None, None)>>)

restart_match(c) ==
    IF Len(c.players) # 2 THEN Raise(c, <<>>)
    ELSE LET c1 == reset_scores_and_round(c)
             c2 == [c1 EXCEPT !.players = [i \in DOMAIN c1.players |->
                                   [c1.players[i] EXCEPT !.state = "CONNECTED",
                                                         !.last_move = None]],
                              !.state = "READY_CHECK"]
         IN  Ok(c2, <<Event("MATCH_RESTARTED", c2, None, None, None)>>)

\* abort without the reset of round_id and last_result
abort_keeps_round(c) ==
    LET c1 == [c EXCEPT !.players = <<>>, !.state = "EMPTY"]
    IN  Ok(c1, <<Event("ROOM_ABORTED", c1, None, None, None)>>)

abort(c) ==
    LET c1 == [c EXCEPT !.players = <<>>, !.state = "EMPTY",
                        !.round_id = 0, !.last_result = None]
    IN  Ok(c1, <<Event("ROOM_ABORTED", c1, None, None, None)>>)

\* ------------------------------------------------------- RoomFSM as a machine
Init ==
    /\ ctx \in {RoomCtx(b) : b \in BestOfs}
    /\ emitted = <<>>
    /\ raised = None
    /\ called = None

\* one public call of RoomFSM: its whole effect, the events and the exception
Call(method, r) ==
    /\ r.ctx.round_id <= MaxRound
    /\ ctx' = r.ctx
    /\ emitted' = r.emitted
    /\ raised' = r.raised
    /\ called' = method
    /\ UNCHANGED <<tvars, wsvars, avars, timervars, svcvars>>

PlayerJoin == \E pid \in Pids : Call("player_join", player_join(ctx, pid))
PlayerLeave == \E pid \in Pids : Call("player_leave", player_leave(ctx, pid))
SetReady == \E pid \in Pids, ready \in BOOLEAN : Call("set_ready", set_ready(ctx, pid, ready))
MakeMove == \E pid \in Pids, move \in Move : Call("make_move", make_move(ctx, pid, move))
RoundTimeout == Call("round_timeout", round_timeout(ctx))
RestartMatch == Call("restart_match", restart_match(ctx))
Abort == Call("abort", abort(ctx))

Next ==
    \/ PlayerJoin
    \/ PlayerLeave
    \/ SetReady
    \/ MakeMove
    \/ RoundTimeout
    \/ RestartMatch
    \/ Abort


TypeOK ==
    /\ ctx.state \in RoomState
    /\ ctx.round_id \in 0..MaxRound
    /\ \A i \in DOMAIN ctx.players :
          /\ ctx.players[i].state \in PlayerState
          /\ ctx.players[i].last_move \in Move \cup {None}
          /\ ctx.players[i].score \in 0..MaxRound

\* ------------------------------------------- FSM (server/game/transitions.py)
\* t = [state, ctx]; every method returns [t, ret, payload, raised]: ret is the
\* string returned (None for None, "dict" for a dict) and payload holds the
\* dict, if one was returned
TRet(t, ret) == [t |-> t, ret |-> ret, payload |-> <<>>, raised |-> None]
TDict(t, payload) == [t |-> t, ret |-> "dict", payload |-> <<payload>>, raised |-> None]
TRaise(t, exc) == [t |-> t, ret |-> None, payload |-> <<>>, raised |-> exc]

\* the body shared by on_player_join, on_start and next_round_or_over
t_new_round(t) ==
    [t EXCEPT !.ctx.round_id = t.ctx.round_id + 1,
              !.ctx.players = [i \in DOMAIN t.ctx.players |->
                                 [t.ctx.players[i] EXCEPT !.last_move = None,
                                                          !.state = "READY"]],
              !.state = "ROUND_AWAIT_MOVES"]

on_player_join(t, pid) ==
    LET t1 == IF HasPid(t.ctx, pid) THEN t
              ELSE [t EXCEPT !.ctx.players =
                        Append(t.ctx.players, PlayerCtx(pid, "CONNECTED"))]
        n == Len(t1.ctx.players)
    IN  IF n = 0 THEN TRet([t1 EXCEPT !.state = "EMPTY"], "WAITING_MOVE")
        ELSE IF n = 1 THEN TRet([t1 EXCEPT !.state = "ONE_WAITING"], "WAITING_MOVE")
        ELSE TRet(t_new_round(t1), "WAITING_MOVE")

on_start(t) ==
    IF t.state = "EMPTY" THEN TRet(t, "WAITING_OPP")
    ELSE IF t.state = "ONE_WAITING" THEN TRet(t, "WAITING_OPP")
    ELSE TRet(t_new_round(t), "WAITING_MOVE")

on_move(t, pid, move) ==
    IF t.state # "ROUND_AWAIT_MOVES" THEN TRet(t, None)
    ELSE IF ~HasPid(t.ctx, pid) THEN TRaise(t, "KeyError")
    ELSE IF Player(t.ctx, pid).last_move # None THEN TRet(t, None)
    ELSE LET t1 == [t EXCEPT !.ctx.players[IndexOf(t.ctx, pid)].last_move = move,
                             !.ctx.players[IndexOf(t.ctx, pid)].state = "MOVED"]
             players == t1.ctx.players
         IN  IF Len(players) # 2 THEN TRet(t1, None)
             ELSE IF players[1].last_move = None \/ players[2].last_move = None
             THEN TRet(t1, None)
             ELSE LET out == judge(players[1].last_move, players[2].last_move)
                      w == IF out = "win" THEN 1 ELSE IF out = "lose" THEN 2 ELSE 0
                      t2 == IF w = 0 THEN t1
                            ELSE [t1 EXCEPT !.ctx.players[w].score = @ + 1]
                      payload == [round_id |-> t2.ctx.round_id,
                                  outcome |-> IF w = 0 THEN "draw" ELSE "win",
                                  winner |-> IF w = 0 THEN None ELSE players[w].pid,
                                  score |-> score_view(t2.ctx)]
                  IN  TDict([t2 EXCEPT !.state = "ROUND_RESULT"], payload)

t_has_match_winner(c) ==
    LET need == (c.best_of \div 2) + 1
        hit == {i \in DOMAIN c.players : c.players[i].score >= need}
    IN  IF hit = {} THEN None
        ELSE c.players[CHOOSE i \in hit : \A j \in hit : i <= j].pid

next_round_or_over(t) ==
    IF t_has_match_winner(t.ctx) # None
    THEN TRet([t EXCEPT !.state = "MATCH_OVER"], "MATCH_OVER")
    ELSE TRet(t_new_round(t), "WAITING_MOVE")

on_leave(t, pid) ==
    LET t1 == [t EXCEPT !.ctx.players =
                   SelectSeq(t.ctx.players, LAMBDA p : p.pid # pid)]
        n == Len(t1.ctx.players)
    IN  IF n = 0
        THEN TRet([t1 EXCEPT !.state = "EMPTY", !.ctx.round_id = 0], None)
        ELSE TRet([t1 EXCEPT !.ctx.players[1].state = "CONNECTED",
                             !.state = "ONE_WAITING"], None)

\* build_transitions: the table FSM.send looks the handler up in
Table ==
    [k \in {<<"EMPTY", "START">>, <<"ONE_WAITING", "START">>,
            <<"ROUND_AWAIT_MOVES", "MOVE">>, <<"ROUND_RESULT", "START">>} |->
        CASE k = <<"EMPTY", "START">> -> "ONE_WAITING"
          [] k = <<"ONE_WAITING", "START">> -> "ROUND_AWAIT_MOVES"
          [] k = <<"ROUND_AWAIT_MOVES", "MOVE">> -> "ROUND_RESULT"
          [] k = <<"ROUND_RESULT", "START">> -> "ONE_WAITING"]

ClientEvent == {"START", "MOVE", "READY"}

send(t, event) ==
    IF <<t.state, event>> \notin DOMAIN Table THEN TRet(t, None)
    ELSE TRet([t EXCEPT !.state = Table[<<t.state, event>>]], None)

TInit ==
    /\ tfsm = [state |-> "EMPTY",
               ctx |-> [best_of |-> ctx.best_of, round_id |-> 0, players |-> <<>>]]
    /\ tret = [ret |-> None, payload |-> <<>>, raised |-> None]

TCall(r) ==
    /\ r.t.ctx.round_id <= MaxRound
    /\ tfsm' = r.t
    /\ tret' = [ret |-> r.ret, payload |-> r.payload, raised |-> r.raised]
    /\ UNCHANGED <<fsmvars, wsvars, avars, timervars, svcvars>>

TOnPlayerJoin == \E pid \in Pids : TCall(on_player_join(tfsm, pid))
TOnStart == TCall(on_start(tfsm))
TOnMove == \E pid \in Pids, move \in Move : TCall(on_move(tfsm, pid, move))
TNextRoundOrOver == TCall(next_round_or_over(tfsm))
TOnLeave == \E pid \in Pids : TCall(on_leave(tfsm, pid))
TSend == \E event \in ClientEvent : TCall(send(tfsm, event))

TNext ==
    \/ TOnPlayerJoin
    \/ TOnStart
    \/ TOnMove
    \/ TNextRoundOrOver
    \/ TOnLeave
    \/ TSend


\* ------------------- RoomFSM, a match that both participants play to its end
\* Two participants join, complete the readiness handshake before every round
\* and move in it; nobody leaves, rejoins, restarts or aborts; the timer may
\* expire during a round; at most MaxDraws rounds end without a winner.
MatchPids == {"P1", "P2"}

ScoreSum(c) ==
    IF Len(c.players) = 0 THEN 0
    ELSE IF Len(c.players) = 1 THEN c.players[1].score
    ELSE c.players[1].score + c.players[2].score

RoundsResolved(c) == IF c.state = "ROUND_AWAIT_MOVES" THEN c.round_id - 1 ELSE c.round_id
DrawsSoFar(c) == RoundsResolved(c) - ScoreSum(c)

MCall(method, r) ==
    /\ r.ctx.round_id <= r.ctx.best_of + MaxDraws + 1
    /\ ctx' = r.ctx
    /\ emitted' = r.emitted
    /\ raised' = r.raised
    /\ called' = method
    /\ UNCHANGED <<tvars, wsvars, avars, timervars, svcvars>>

MJoin == \E pid \in MatchPids :
    /\ ~HasPid(ctx, pid)
    /\ Len(ctx.players) < 2
    /\ MCall("player_join", player_join(ctx, pid))

MReady == \E pid \in MatchPids :
    /\ HasPid(ctx, pid)
    /\ ctx.state = "READY_CHECK"
    /\ Player(ctx, pid).state # "READY"
    /\ MCall("set_ready", set_ready(ctx, pid, TRUE))

MMove == \E pid \in MatchPids, move \in Move :
    /\ HasPid(ctx, pid)
    /\ ctx.state = "ROUND_AWAIT_MOVES"
    /\ Player(ctx, pid).last_move = None
    /\ (\E i \in DOMAIN ctx.players : ctx.players[i].last_move = move)
          => DrawsSoFar(ctx) < MaxDraws
    /\ MCall("make_move", make_move(ctx, pid, move))

MTimeout ==
    /\ ctx.state = "ROUND_AWAIT_MOVES"
    /\ (\A i \in DOMAIN ctx.players : ctx.players[i].last_move = None)
          => DrawsSoFar(ctx) < MaxDraws
    /\ MCall("round_timeout", round_timeout(ctx))

MNext ==
    \/ MJoin
    \/ MReady
    \/ MMove
    \/ MTimeout

\* ----------------------------- RoomFSM with the round timer its caller runs
\* RoomFSM keeps no timer: its caller starts one when a round starts
\* (ROUND_START) and calls round_timeout() when it expires. round_timeout takes
\* no argument, so the call carries nothing of the round its timer was started
\* for, and nothing stops a timer when its round is resolved by the moves.
\* The participants are those of the match above.
TmInit == armed = {}

TmCall(method, r, expired) ==
    /\ r.ctx.round_id <= MaxRound
    /\ ctx' = r.ctx
    /\ emitted' = r.emitted
    /\ raised' = r.raised
    /\ called' = method
    /\ armed' = (armed \ expired) \cup
                   (IF \E e \in DOMAIN r.emitted : r.emitted[e].type = "ROUND_START"
                    THEN {r.ctx.round_id} ELSE {})
    /\ UNCHANGED <<tvars, wsvars, avars, svcvars>>

TmJoin == \E pid \in MatchPids :
    /\ ~HasPid(ctx, pid)
    /\ Len(ctx.players) < 2
    /\ TmCall("player_join", player_join(ctx, pid), {})

TmReady == \E pid \in MatchPids :
    /\ HasPid(ctx, pid)
    /\ ctx.state = "READY_CHECK"
    /\ Player(ctx, pid).state # "READY"
    /\ TmCall("set_ready", set_ready(ctx, pid, TRUE), {})

TmMove == \E pid \in MatchPids, move \in Move :
    /\ HasPid(ctx, pid)
    /\ ctx.state = "ROUND_AWAIT_MOVES"
    /\ Player(ctx, pid).last_move = None
    /\ TmCall("make_move", make_move(ctx, pid, move), {})

\* the timer started for round k expires: the caller calls round_timeout()
TmExpire == \E k \in armed : TmCall("round_timeout", round_timeout(ctx), {k})

TmNext ==
    \/ TmJoin
    \/ TmReady
    \/ TmMove
    \/ TmExpire

\* ------------------------------- ConnectionManager (server/api/routes/ws.py)
\* websocket connections: every client has its own, and sends its own id
ConnOf == [p \in Pids |-> CASE p = "P1" -> "w1" [] p = "P2" -> "w2" [] p = "P3" -> "w3"]
Conns == {ConnOf[p] : p \in Pids}

\* Python dicts keep insertion order: a dict is a sequence of [k, v]
DHas(d, k) == \E i \in DOMAIN d : d[i].k = k
DGet(d, k) == IF DHas(d, k) THEN d[CHOOSE i \in DOMAIN d : d[i].k = k].v ELSE None
DSet(d, k, v) ==
    IF DHas(d, k) THEN [i \in DOMAIN d |-> IF d[i].k = k THEN [k |-> k, v |-> v] ELSE d[i]]
    ELSE Append(d, [k |-> k, v |-> v])
DSetDefault(d, k, v) == IF DHas(d, k) THEN d ELSE Append(d, [k |-> k, v |-> v])
DKeys(d) == [i \in DOMAIN d |-> d[i].k]
DFromKeys(keys, v) == [i \in DOMAIN keys |-> [k |-> keys[i], v |-> v]]

\* what clients put in the move field, and str.lower().strip() of it
RawMove == {"rock", "paper", "scissors", " Rock ", "PAPER", "lizard"}
lower_strip == [r \in RawMove |-> CASE r = " Rock " -> "rock"
                                   [] r = "PAPER" -> "paper"
                                   [] OTHER -> r]

\* judge of ws.py without its last rule
ws_judge_two_rules(move1, move2) ==
    IF move1 = move2 THEN "draw"
    ELSE IF move1 = "rock" /\ move2 = "scissors" THEN "win"
    ELSE IF move1 = "scissors" /\ move2 = "paper" THEN "win"
    ELSE "lose"

ws_judge(move1, move2) ==
    IF move1 = move2 THEN "draw"
    ELSE IF move1 = "rock" /\ move2 = "scissors" THEN "win"
    ELSE IF move1 = "scissors" /\ move2 = "paper" THEN "win"
    ELSE IF move1 = "paper" /\ move2 = "rock" THEN "win"
    ELSE "lose"

Msg(to, type) == [to |-> to, type |-> type]
WOk(m, msgs) == [cm |-> m, sent |-> msgs, raised |-> None]
WRaise(m, msgs, exc) == [cm |-> m, sent |-> msgs, raised |-> exc]
WThen(msgs, r) == [r EXCEPT !.sent = msgs \o r.sent]

\* send_personal_message: sends only when tg_id is a registered player
personal(m, tg_id, type) ==
    IF DHas(m.players, tg_id) THEN <<Msg(tg_id, type)>> ELSE <<>>

room_is_ready(m) == Len(m.players) >= 2

register_player(m, tg_id, w) ==
    [m EXCEPT !.players = DSet(m.players, tg_id, w),
              !.moves = DSetDefault(m.moves, tg_id, None),
              !.scores = DSetDefault(m.scores, tg_id, 0)]

round_start(m) ==
    LET players == DKeys(m.players)
        over == \E i \in DOMAIN m.scores : m.scores[i].v >= 3
        m1 == IF over THEN [m EXCEPT !.scores = DFromKeys(players, 0)] ELSE m
        m2 == [m1 EXCEPT !.round_id = m.round_id + 1,
                         !.moves = DFromKeys(players, None)]
    IN  WOk(m2, (IF over THEN <<Msg("room", "MATCH_OVER")>> ELSE <<>>)
                \o (IF room_is_ready(m2) THEN <<Msg("room", "ROUND_START")>> ELSE <<>>))

\* receive_move storing the move before it validates it
receive_move_records_first(m, tg_id, raw) ==
    LET move == lower_strip[raw]
    IN  IF move \notin {"rock", "paper", "scissors"}
        THEN WOk([m EXCEPT !.moves = DSet(m.moves, tg_id, move)],
                 personal(m, tg_id, "ERROR"))
        ELSE IF ~room_is_ready(m)
        THEN WOk(m, personal(m, tg_id, "WAIT_FOR_OPPONENT"))
        ELSE
        LET m1 == [m EXCEPT !.moves = DSet(m.moves, tg_id, move)]
            other_ids == SelectSeq(DKeys(m.players), LAMBDA pid : pid # tg_id)
            opp == IF Len(other_ids) > 0 /\ DGet(m1.moves, other_ids[1]) = None
                   THEN personal(m1, other_ids[1], "OPP_READY") ELSE <<>>
            moves_done == SelectSeq(m1.moves, LAMBDA e : e.v # None)
        IN  IF Len(moves_done) < 2
            THEN WOk(m1, opp \o personal(m1, tg_id, "WAIT_FOR_OPPONENT"))
            ELSE IF Len(moves_done) # 2
            THEN WRaise(m1, opp, "ValueError")
            ELSE
            LET p1 == moves_done[1].k
                p2 == moves_done[2].k
                outcome_p1 == ws_judge(moves_done[1].v, moves_done[2].v)
                outcome_p2 == ws_judge(moves_done[2].v, moves_done[1].v)
                w == IF outcome_p1 = "win" THEN p1
                     ELSE IF outcome_p2 = "win" THEN p2 ELSE None
            IN  IF w # None /\ ~DHas(m1.scores, w)
                THEN WRaise(m1, opp, "KeyError")
                ELSE
                LET m2 == IF w = None THEN m1
                          ELSE [m1 EXCEPT !.scores = DSet(m1.scores, w, DGet(m1.scores, w) + 1)]
                IN  IF ~DHas(m2.scores, p1) \/ ~DHas(m2.scores, p2)
                    THEN WRaise(m2, opp, "KeyError")
                    ELSE WOk([m2 EXCEPT !.moves = DSet(DSet(m2.moves, p1, None), p2, None)],
                             opp \o personal(m2, p1, "RESULT") \o personal(m2, p2, "RESULT"))

receive_move(m, tg_id, raw) ==
    LET move == lower_strip[raw]
    IN  IF move \notin {"rock", "paper", "scissors"}
        THEN WOk(m, personal(m, tg_id, "ERROR"))
        ELSE IF ~room_is_ready(m)
        THEN WOk(m, personal(m, tg_id, "WAIT_FOR_OPPONENT"))
        ELSE
        LET m1 == [m EXCEPT !.moves = DSet(m.moves, tg_id, move)]
            other_ids == SelectSeq(DKeys(m.players), LAMBDA pid : pid # tg_id)
            opp == IF Len(other_ids) > 0 /\ DGet(m1.moves, other_ids[1]) = None
                   THEN personal(m1, other_ids[1], "OPP_READY") ELSE <<>>
            moves_done == SelectSeq(m1.moves, LAMBDA e : e.v # None)
        IN  IF Len(moves_done) < 2
            THEN WOk(m1, opp \o personal(m1, tg_id, "WAIT_FOR_OPPONENT"))
            ELSE IF Len(moves_done) # 2
            THEN WRaise(m1, opp, "ValueError")
            ELSE
            LET p1 == moves_done[1].k
                p2 == moves_done[2].k
                outcome_p1 == ws_judge(moves_done[1].v, moves_done[2].v)
                outcome_p2 == ws_judge(moves_done[2].v, moves_done[1].v)
                w == IF outcome_p1 = "win" THEN p1
                     ELSE IF outcome_p2 = "win" THEN p2 ELSE None
            IN  IF w # None /\ ~DHas(m1.scores, w)
                THEN WRaise(m1, opp, "KeyError")
                ELSE
                LET m2 == IF w = None THEN m1
                          ELSE [m1 EXCEPT !.scores = DSet(m1.scores, w, DGet(m1.scores, w) + 1)]
                IN  IF ~DHas(m2.scores, p1) \/ ~DHas(m2.scores, p2)
                    THEN WRaise(m2, opp, "KeyError")
                    ELSE WOk([m2 EXCEPT !.moves = DSet(DSet(m2.moves, p1, None), p2, None)],
                             opp \o personal(m2, p1, "RESULT") \o personal(m2, p2, "RESULT"))

\* websocket_rps_endpoint, case JOINED (and find_match): t decodes to tg_id or None
ws_joined(m, w, tg_id) ==
    IF tg_id = None
    THEN WOk(m, <<Msg(w, "AUTH_FAIL")>>)
    ELSE LET m1 == register_player(m, tg_id, w)
         IN  IF room_is_ready(m1)
             THEN WThen(<<Msg(w, "AUTH_OK")>>, round_start(m1))
             ELSE WOk(m1, <<Msg(w, "AUTH_OK"), Msg(w, "WAIT_FOR_OPPONENT")>>)

\* websocket_rps_endpoint, case MOVE: auth_player's verdict is not used
ws_move(m, w, tg_id, raw) ==
    LET auth == IF DHas(m.players, tg_id) THEN <<>> ELSE <<Msg(w, "AUTH_FAIL")>>
    IN  IF ~room_is_ready(m)
        THEN WOk(m, auth \o <<Msg(w, "WAIT_FOR_OPPONENT")>>)
        ELSE WThen(auth, receive_move(m, tg_id, raw))

\* websocket_rps_endpoint, case READY
ws_ready(m, w) == round_start(m)

connect(m, w) == [m EXCEPT !.active = m.active \cup {w}]

\* the endpoint's WebSocketDisconnect handler: ConnectionManager.disconnect
disconnect(m, w) == [m EXCEPT !.active = m.active \ {w}]

WInit ==
    /\ cm = [players |-> <<>>, round_id |-> 0, moves |-> <<>>, scores |-> <<>>,
             active |-> {}]
    /\ sent = <<>>
    /\ wraised = None

WCall(r) ==
    /\ r.cm.round_id <= MaxWsRound
    /\ \A i \in DOMAIN r.cm.scores : r.cm.scores[i].v <= MaxWsScore
    /\ cm' = r.cm
    /\ sent' = r.sent
    /\ wraised' = r.raised
    /\ UNCHANGED <<fsmvars, tvars, avars, timervars, svcvars>>

WConnect == \E w \in Conns \ cm.active : WCall(WOk(connect(cm, w), <<>>))
WJoined == \E p \in Pids : \E tg_id \in {p, None} :
    ConnOf[p] \in cm.active /\ WCall(ws_joined(cm, ConnOf[p], tg_id))
WMove == \E p \in Pids, raw \in RawMove :
    ConnOf[p] \in cm.active /\ WCall(ws_move(cm, ConnOf[p], p, raw))
WReady == \E p \in Pids : ConnOf[p] \in cm.active /\ WCall(ws_ready(cm, ConnOf[p]))
WDisconnect == \E w \in cm.active : WCall(WOk(disconnect(cm, w), <<>>))

WNext ==
    \/ WConnect
    \/ WJoined
    \/ WMove
    \/ WReady

\* --------------------- the endpoint as asyncio coroutines (server/api/routes/ws.py)
\* One coroutine per websocket runs websocket_rps_endpoint. It runs until it
\* awaits; it can be suspended in receive_json, in a send, and in acquiring a
\* Lock that is held. Acquiring a free Lock does not suspend; one that has
\* to wait for the Lock takes its step when the Lock is free.
AsyncRawMove == {"rock", "scissors", "lizard"}
PidOf(w) == CHOOSE p \in Pids : ConnOf[p] = w
Frame(at, move, players) == [at |-> at, move |-> move, players |-> players]
InReceive == Frame("receive_json", None, <<>>)
SendPositions == {"joined_send_auth_ok", "round_start_send_match_over",
                  "round_start_send_round_start", "receive_move_send_opp_ready",
                  "receive_move_send_wait", "receive_move_send_result"}

AInit ==
    /\ pc = [w \in Conns |-> InReceive]
    /\ lock = None

\* what the coroutine of w does until its next await
AStep(w, m, msgs, exc, frame, holder) ==
    /\ m.round_id <= MaxAsyncRound
    /\ \A i \in DOMAIN m.scores : m.scores[i].v <= MaxAsyncScore
    /\ cm' = m
    /\ sent' = msgs
    /\ wraised' = exc
    /\ pc' = [pc EXCEPT ![w] = frame]
    /\ lock' = holder
    /\ UNCHANGED <<fsmvars, tvars, timervars, svcvars>>

\* round_start after the MATCH_OVER branch: lines 127-143, the Lock held
round_start_round(w, m, players) ==
    LET m2 == [m EXCEPT !.round_id = m.round_id + 1,
                        !.moves = DFromKeys(players, None)]
    IN  IF room_is_ready(m2)
        THEN AStep(w, m2, <<Msg("room", "ROUND_START")>>, None,
                   Frame("round_start_send_round_start", None, <<>>), w)
        ELSE AStep(w, m2, <<>>, None, InReceive, None)

\* round_start from the acquisition of the Lock: lines 116-126
round_start_locked(w) ==
    LET players == DKeys(cm.players)
    IN  IF \E i \in DOMAIN cm.scores : cm.scores[i].v >= 3
        THEN AStep(w, cm, <<Msg("room", "MATCH_OVER")>>, None,
                   Frame("round_start_send_match_over", None, players), w)
        ELSE round_start_round(w, cm, players)

\* receive_move from line 200 on, the Lock held
receive_move_resolve(w, m1, auth) ==
    LET tg_id == PidOf(w)
        moves_done == SelectSeq(m1.moves, LAMBDA e : e.v # None)
    IN  IF Len(moves_done) < 2
        THEN AStep(w, m1, auth \o personal(m1, tg_id, "WAIT_FOR_OPPONENT"), None,
                   Frame("receive_move_send_wait", None, <<>>), w)
        ELSE IF Len(moves_done) # 2
        THEN AStep(w, m1, auth, "ValueError", Frame("crashed", None, <<>>), None)
        ELSE
        LET p1 == moves_done[1].k
            p2 == moves_done[2].k
            outcome_p1 == ws_judge(moves_done[1].v, moves_done[2].v)
            outcome_p2 == ws_judge(moves_done[2].v, moves_done[1].v)
            win == IF outcome_p1 = "win" THEN p1
                   ELSE IF outcome_p2 = "win" THEN p2 ELSE None
        IN  IF (win # None /\ ~DHas(m1.scores, win))
               \/ ~DHas(m1.scores, p1) \/ ~DHas(m1.scores, p2)
            THEN AStep(w, m1, auth, "KeyError", Frame("crashed", None, <<>>), None)
            ELSE
            LET m2 == IF win = None THEN m1
                      ELSE [m1 EXCEPT !.scores = DSet(m1.scores, win, DGet(m1.scores, win) + 1)]
            IN  AStep(w, m2, auth \o personal(m2, p1, "RESULT") \o personal(m2, p2, "RESULT"), None,
                      Frame("receive_move_send_result", None, <<p1, p2>>), w)

\* receive_move from the acquisition of the Lock: lines 176-197
receive_move_locked(w, move, auth) ==
    LET tg_id == PidOf(w)
    IN  IF ~room_is_ready(cm)
        THEN AStep(w, cm, auth \o personal(cm, tg_id, "WAIT_FOR_OPPONENT"), None,
                   Frame("receive_move_send_wait", None, <<>>), w)
        ELSE
        LET m1 == [cm EXCEPT !.moves = DSet(cm.moves, tg_id, move)]
            other_ids == SelectSeq(DKeys(m1.players), LAMBDA pid : pid # tg_id)
        IN  IF Len(other_ids) > 0 /\ DGet(m1.moves, other_ids[1]) = None
            THEN AStep(w, m1, auth \o personal(m1, other_ids[1], "OPP_READY"), None,
                       Frame("receive_move_send_opp_ready", None, <<>>), w)
            ELSE receive_move_resolve(w, m1, auth)

\* ---- a message arrives at a coroutine suspended in receive_json
AConnect == \E w \in Conns \ cm.active :
    /\ pc[w].at = "receive_json"
    /\ AStep(w, connect(cm, w), <<>>, None, InReceive, lock)

\* case JOINED up to the await of AUTH_OK (lines 312-320): no Lock is taken
AJoined == \E w \in cm.active :
    /\ pc[w].at = "receive_json"
    /\ AStep(w, register_player(cm, PidOf(w), w), <<Msg(w, "AUTH_OK")>>, None,
             Frame("joined_send_auth_ok", None, <<>>), lock)

AReady == \E w \in cm.active :
    /\ pc[w].at = "receive_json"
    /\ lock = None
    /\ round_start_locked(w)

\* case MOVE up to the first send under the Lock (lines 327-338, 166-197)
AMove == \E w \in cm.active, raw \in AsyncRawMove :
    /\ pc[w].at = "receive_json"
    /\ LET tg_id == PidOf(w)
           move == lower_strip[raw]
           auth == IF DHas(cm.players, tg_id) THEN <<>> ELSE <<Msg(w, "AUTH_FAIL")>>
       IN  IF ~room_is_ready(cm)
           THEN AStep(w, cm, auth \o <<Msg(w, "WAIT_FOR_OPPONENT")>>, None, InReceive, lock)
           ELSE IF move \notin {"rock", "paper", "scissors"}
           THEN AStep(w, cm, auth \o personal(cm, tg_id, "ERROR"), None, InReceive, lock)
           ELSE lock = None /\ receive_move_locked(w, move, auth)

\* WebSocketDisconnect out of receive_json: disconnect (lines 239-246, 351-352)
ADisconnect == \E w \in cm.active :
    /\ pc[w].at = "receive_json"
    /\ AStep(w, disconnect(cm, w), <<>>, None, InReceive, lock)

\* ---- a suspended coroutine goes on
AJoinedResume == \E w \in Conns :
    /\ pc[w].at = "joined_send_auth_ok"
    /\ IF room_is_ready(cm) THEN lock = None /\ round_start_locked(w)
       ELSE AStep(w, cm, <<Msg(w, "WAIT_FOR_OPPONENT")>>, None, InReceive, lock)

\* lines 126-143: players is the list made before the await
ARoundStartAfterMatchOver == \E w \in Conns :
    /\ pc[w].at = "round_start_send_match_over"
    /\ round_start_round(w, [cm EXCEPT !.scores = DFromKeys(pc[w].players, 0)],
                         pc[w].players)

ARoundStartRelease == \E w \in Conns :
    /\ pc[w].at = "round_start_send_round_start"
    /\ AStep(w, cm, <<>>, None, InReceive, None)

AMoveAfterOppReady == \E w \in Conns :
    /\ pc[w].at = "receive_move_send_opp_ready"
    /\ receive_move_resolve(w, cm, <<>>)

AMoveRelease == \E w \in Conns :
    /\ pc[w].at = "receive_move_send_wait"
    /\ AStep(w, cm, <<>>, None, InReceive, None)

\* lines 236-237: p1 and p2 are the keys taken before the await
AMoveAfterResult == \E w \in Conns :
    /\ pc[w].at = "receive_move_send_result"
    /\ AStep(w, [cm EXCEPT !.moves = DSet(DSet(cm.moves, pc[w].players[1], None),
                                          pc[w].players[2], None)],
             <<>>, None, InReceive, None)

ANext ==
    \/ AConnect
    \/ AJoined
    \/ AReady
    \/ AMove
    \/ ADisconnect
    \/ AJoinedResume
    \/ ARoundStartAfterMatchOver
    \/ ARoundStartRelease
    \/ AMoveAfterOppReady
    \/ AMoveRelease
    \/ AMoveAfterResult

\* ------------------- ConnectionManager (server/services/connection_manager.py)
\* One room_id. rooms.heap holds the dict objects made for it so far, rooms.cur
\* is the one self.rooms maps room_id to (0: no entry), rooms.accepted the
\* websockets accept() has been awaited on. A coroutine keeps the dict it read
\* from self.rooms in its local `room` across its awaits.
SvcPids == {"P1", "P2"}
Socks == {"s1", "s2", "s3"}

DPop(d, k) == SelectSeq(d, LAMBDA e : e.k # k)

\* broadcast's locals: room, list(room.items()), the position of the loop, dead;
\* tried is the websockets send_json has been called on
Broadcast(at, room, items, i, dead, tried) ==
    [at |-> at, room |-> room, items |-> items, i |-> i, dead |-> dead,
     tried |-> tried]

SInit ==
    /\ rooms = [heap |-> <<>>, cur |-> 0, accepted |-> {}]
    /\ bc = Broadcast("idle", 0, <<>>, 0, <<>>, {})
    /\ dpc = <<>>

\* connect, after `await websocket.accept()`
svc_connect(r, pid, websocket) ==
    IF r.cur = 0
    THEN [heap |-> Append(r.heap, <<[k |-> pid, v |-> websocket]>>),
          cur |-> Len(r.heap) + 1,
          accepted |-> r.accepted \cup {websocket}]
    ELSE [r EXCEPT !.heap[r.cur] = DSet(r.heap[r.cur], pid, websocket),
                   !.accepted = r.accepted \cup {websocket}]

\* disconnect up to `await ws.close()`: room is 0 when the call returns or
\* runs to its end without suspending
svc_disconnect(r, pid) ==
    IF r.cur = 0 \/ r.heap[r.cur] = <<>> THEN [rooms |-> r, room |-> 0]
    ELSE IF ~DHas(r.heap[r.cur], pid) THEN [rooms |-> r, room |-> 0]
    ELSE [rooms |-> [r EXCEPT !.heap[r.cur] = DPop(r.heap[r.cur], pid)],
          room |-> r.cur]

\* disconnect after `await ws.close()`
svc_disconnect_closed(r, room) ==
    IF r.heap[room] = <<>> THEN [r EXCEPT !.cur = 0] ELSE r

\* broadcast, at the end of its loop: for pid in dead: room.pop(pid, None)
RECURSIVE pop_dead(_, _)
pop_dead(d, dead) ==
    IF dead = <<>> THEN d ELSE pop_dead(DPop(d, Head(dead)), Tail(dead))

\* broadcast up to its first `await ws.send_json(message)`
broadcast(r) ==
    LET items == IF r.cur = 0 THEN <<>> ELSE r.heap[r.cur]
    IN  IF items = <<>> THEN Broadcast("done", r.cur, items, 0, <<>>, {})
        ELSE Broadcast("send", r.cur, items, 1, <<>>, {items[1].v})

\* broadcast from the return of send_json (ok) or its exception to the next await
broadcast_sent(r, b, ok) ==
    LET dead == IF ok THEN b.dead ELSE Append(b.dead, b.items[b.i].k)
    IN  IF b.i < Len(b.items)
        THEN [rooms |-> r,
              bc |-> Broadcast("send", b.room, b.items, b.i + 1, dead,
                               b.tried \cup {b.items[b.i + 1].v})]
        ELSE [rooms |-> [r EXCEPT !.heap[b.room] = pop_dead(r.heap[b.room], dead)],
              bc |-> Broadcast("done", b.room, b.items, b.i, dead, b.tried)]

SConnect == \E pid \in SvcPids, websocket \in Socks \ rooms.accepted :
    /\ rooms.cur = 0 => Len(rooms.heap) < MaxDicts
    /\ rooms' = svc_connect(rooms, pid, websocket)
    /\ UNCHANGED <<fsmvars, tvars, wsvars, avars, timervars, bc, dpc>>

SDisconnect == \E pid \in SvcPids :
    LET r == svc_disconnect(rooms, pid)
    IN  /\ r.room # 0 => Len(dpc) < MaxSuspended
        /\ rooms' = r.rooms
        /\ dpc' = IF r.room = 0 THEN dpc ELSE Append(dpc, r.room)
        /\ UNCHANGED <<fsmvars, tvars, wsvars, avars, timervars, bc>>

SDisconnectClosed == \E n \in DOMAIN dpc :
    /\ rooms' = svc_disconnect_closed(rooms, dpc[n])
    /\ dpc' = [j \in 1..(Len(dpc) - 1) |-> IF j < n THEN dpc[j] ELSE dpc[j + 1]]
    /\ UNCHANGED <<fsmvars, tvars, wsvars, avars, timervars, bc>>

SBroadcast ==
    /\ bc.at # "send"
    /\ bc' = broadcast(rooms)
    /\ UNCHANGED <<fsmvars, tvars, wsvars, avars, timervars, rooms, dpc>>

SBroadcastSent == \E ok \in BOOLEAN :
    /\ bc.at = "send"
    /\ rooms' = broadcast_sent(rooms, bc, ok).rooms
    /\ bc' = broadcast_sent(rooms, bc, ok).bc
    /\ UNCHANGED <<fsmvars, tvars, wsvars, avars, timervars, dpc>>

SNext ==
    \/ SConnect
    \/ SDisconnect
    \/ SDisconnectClosed
    \/ SBroadcast
    \/ SBroadcastSent

\* ---------------------------------------------------------- specifications
\* each engine is checked on its own; the other two stay as constructed
InitAll == Init /\ TInit /\ WInit /\ AInit /\ TmInit /\ SInit
InitDefault ==
    ctx = RoomCtx(DefaultBestOf) /\ emitted = <<>> /\ raised = None /\ called = None
InitWs == InitDefault /\ TInit /\ WInit /\ AInit /\ TmInit /\ SInit

Spec == InitAll /\ [][Next]_vars
SpecT == InitAll /\ [][TNext]_vars
SpecWs == InitWs /\ [][WNext]_vars
\* RoomFSM on RoomCtx's default best_of
SpecDefault == InitWs /\ [][Next]_vars
\* the match played to its end: the participants' calls are not put off forever
SpecMatch ==
    InitAll /\ [][MNext]_vars /\ WF_vars(MJoin) /\ WF_vars(MReady) /\ WF_vars(MMove)
SpecWsAsync == InitWs /\ [][ANext]_vars
\* RoomFSM and the round timers of its caller
SpecTimer == InitAll /\ [][TmNext]_vars
\* the ConnectionManager of server/services
SpecConn == InitAll /\ [][SNext]_vars

\* =================================================================== claims

\* C1: a room never holds more than 2 participants, whatever is joined.
\* RoomFSM.player_join keeps the bound (C1_RoomFSM_AtMostTwo); the engine the
\* websocket route runs, ConnectionManager.register_player, does not.
C1_AtMostTwoPlayers == Len(cm.players) <= 2

C1_RoomFSM_AtMostTwo == Len(ctx.players) <= 2

C1_FSM_AtMostTwo == Len(tfsm.ctx.players) <= 2

\* ---- vocabulary of the claims about RoomFSM
Scores(c) == [i \in DOMAIN c.players |-> c.players[i].score]
LastMoves(c) == [i \in DOMAIN c.players |-> c.players[i].last_move]
States(c) == [i \in DOMAIN c.players |-> c.players[i].state]
Types(evs) == [i \in DOMAIN evs |-> evs[i].type]
CountType(evs, type) == Cardinality({i \in DOMAIN evs : evs[i].type = type})
\* the reference table of section 4.1: the pairs in which the first move wins
Beats == {<<"rock", "scissors">>, <<"scissors", "paper">>, <<"paper", "rock">>}

\* C2: while a match is in progress (READY_CHECK, ROUND_AWAIT_MOVES) every
\* score is below wins_needed, and a state in which a score has reached
\* wins_needed is MATCH_OVER.
C2_MatchEndsAtWinsNeeded ==
    /\ ctx.state \in {"READY_CHECK", "ROUND_AWAIT_MOVES"} =>
          \A i \in DOMAIN ctx.players : ctx.players[i].score < (ctx.best_of \div 2) + 1
    /\ (\E i \in DOMAIN ctx.players : ctx.players[i].score >= (ctx.best_of \div 2) + 1) =>
          ctx.state = "MATCH_OVER"

\* C2, as the engine keeps it: a round that has just been resolved with a
\* score at wins_needed leaves the room in MATCH_OVER.
C2_RoomFSM_AfterRound ==
    (CountType(emitted, "ROUND_RESULT") + CountType(emitted, "ROUND_TIMEOUT_WIN") > 0
       /\ \E i \in DOMAIN ctx.players : ctx.players[i].score >= (ctx.best_of \div 2) + 1)
    => ctx.state = "MATCH_OVER"

\* C3: the call of make_move that records the second move of a round resolves
\* it by the table: a decisive round adds exactly 1 to the winner's score and
\* leaves the loser's, a draw leaves both.
SecondMoveStep ==
    /\ ctx.state = "ROUND_AWAIT_MOVES"
    /\ Len(ctx.players) = 2
    /\ Cardinality({i \in 1..2 : ctx.players[i].state = "MOVED"}) = 1
    /\ called' = "make_move"
    /\ \E i \in 1..2 : ctx.players[i].state = "READY" /\ ctx'.players[i].last_move # None

C3_Resolved ==
    LET a == ctx'.players[1].last_move
        b == ctx'.players[2].last_move
    IN  /\ Len(ctx'.players) = 2
        /\ a \in Move /\ b \in Move
        /\ \A i \in 1..2 : ctx.players[i].state = "MOVED" =>
                              ctx'.players[i].last_move = ctx.players[i].last_move
        /\ Scores(ctx') =
             IF a = b THEN Scores(ctx)
             ELSE IF <<a, b>> \in Beats
             THEN <<ctx.players[1].score + 1, ctx.players[2].score>>
             ELSE <<ctx.players[1].score, ctx.players[2].score + 1>>
        /\ CountType(emitted', "ROUND_RESULT") = 1
        /\ raised' = None

C3_RoundScoredByJudge == [][SecondMoveStep => C3_Resolved]_vars

C3_Witness ==
    /\ called = "make_move"
    /\ Len(emitted) >= 2
    /\ emitted[1].type = "MOVE_ACCEPTED"
    /\ emitted[2].type = "ROUND_RESULT"
    /\ emitted[2].outcome = "win"
    /\ emitted[2].winner = ctx.players[2].pid
    /\ ctx.players[2].score = 1 /\ ctx.players[1].score = 0

\* C3, as FSM.on_move keeps it: the call that records the second move scores
\* the round by the table.
C3_FSM_RoundScoredByJudge ==
    (tfsm.state = "ROUND_AWAIT_MOVES" /\ Len(tfsm.ctx.players) = 2) =>
      \A i \in 1..2 : \A m \in Move :
        (tfsm.ctx.players[i].last_move = None /\ tfsm.ctx.players[3 - i].last_move # None) =>
          LET r == on_move(tfsm, tfsm.ctx.players[i].pid, m).t
              a == IF i = 1 THEN m ELSE tfsm.ctx.players[1].last_move
              b == IF i = 2 THEN m ELSE tfsm.ctx.players[2].last_move
          IN  Scores(r.ctx) =
                IF a = b THEN Scores(tfsm.ctx)
                ELSE IF <<a, b>> \in Beats
                THEN <<tfsm.ctx.players[1].score + 1, tfsm.ctx.players[2].score>>
                ELSE <<tfsm.ctx.players[1].score, tfsm.ctx.players[2].score + 1>>

\* C3, as ConnectionManager.receive_move keeps it for two registered players
C3_Ws_RoundScoredByJudge ==
    Len(cm.players) = 2 /\ DKeys(cm.moves) = DKeys(cm.players) =>
      \A i \in 1..2 : \A raw \in {"rock", "paper", "scissors"} :
        (cm.moves[3 - i].v # None /\ cm.moves[i].v = None) =>
          LET r == receive_move(cm, cm.moves[i].k, raw).cm
              a == IF i = 1 THEN raw ELSE cm.moves[1].v
              b == IF i = 2 THEN raw ELSE cm.moves[2].v
              sc(m) == <<DGet(m.scores, cm.moves[1].k), DGet(m.scores, cm.moves[2].k)>>
          IN  sc(r) = IF a = b THEN sc(cm)
                      ELSE IF <<a, b>> \in Beats THEN <<sc(cm)[1] + 1, sc(cm)[2]>>
                      ELSE <<sc(cm)[1], sc(cm)[2] + 1>>

\* C4: the two moves of a round give the same scores, winner, outcome and room
\* state in either arrival order, and one ROUND_RESULT is emitted either way.
C4_OrderIndependent ==
    (/\ ctx.state = "ROUND_AWAIT_MOVES"
     /\ Len(ctx.players) = 2
     /\ \A i \in 1..2 : ctx.players[i].state = "READY")
    => \A a \in Move, b \in Move :
         LET p == ctx.players[1].pid
             q == ctx.players[2].pid
             x1 == make_move(ctx, p, a)
             x2 == make_move(x1.ctx, q, b)
             y1 == make_move(ctx, q, b)
             y2 == make_move(y1.ctx, p, a)
             ex == SelectSeq(x1.emitted \o x2.emitted, LAMBDA e : e.type = "ROUND_RESULT")
             ey == SelectSeq(y1.emitted \o y2.emitted, LAMBDA e : e.type = "ROUND_RESULT")
         IN  /\ x1.raised = None /\ x2.raised = None
             /\ y1.raised = None /\ y2.raised = None
             /\ x2.ctx = y2.ctx
             /\ Len(ex) = 1 /\ Len(ey) = 1
             /\ ex = ey
             /\ ex[1].round_id = ctx.round_id
             /\ (ex[1].outcome = "draw") = (a = b)
             /\ ex[1].winner = (IF a = b THEN None
                                ELSE IF <<a, b>> \in Beats THEN p ELSE q)

\* a round resolved by the first participant moving last
C4_Witness ==
    /\ called = "make_move"
    /\ Len(emitted) >= 2
    /\ emitted[1].type = "MOVE_ACCEPTED"
    /\ emitted[1].pid = ctx.players[1].pid
    /\ emitted[2].type = "ROUND_RESULT"
    /\ emitted[2].winner = ctx.players[2].pid

\* C4, as ConnectionManager.receive_move keeps it for two registered players:
\* the same room state in either order, one RESULT to each participant.
C4_Ws_OrderIndependent ==
    (/\ Len(cm.players) = 2
     /\ DKeys(cm.moves) = DKeys(cm.players)
     /\ \A i \in 1..2 : cm.moves[i].v = None)
    => \A a \in Move, b \in Move :
         LET p == cm.players[1].k
             q == cm.players[2].k
             x1 == receive_move(cm, p, a)
             x2 == receive_move(x1.cm, q, b)
             y1 == receive_move(cm, q, b)
             y2 == receive_move(y1.cm, p, a)
             res(msgs) == SelectSeq(msgs, LAMBDA e : e.type = "RESULT")
         IN  /\ x2.cm = y2.cm
             /\ x2.raised = None /\ y2.raised = None
             /\ res(x1.sent \o x2.sent) = <<Msg(p, "RESULT"), Msg(q, "RESULT")>>
             /\ res(y1.sent \o y2.sent) = <<Msg(p, "RESULT"), Msg(q, "RESULT")>>

\* C5: once a move is recorded for a participant, a later move of the same
\* participant in that round does not replace it (the first move is kept).
C5_FirstMoveKept ==
    [][\A i \in DOMAIN cm.moves :
          (cm.moves[i].v # None /\ DGet(cm'.moves, cm.moves[i].k) # None)
          => DGet(cm'.moves, cm.moves[i].k) = cm.moves[i].v]_vars

\* C5, as RoomFSM keeps it: make_move by a participant who has moved changes
\* nothing and emits MOVE_DUPLICATE only.
C5_RoomFSM_DuplicateNoop ==
    ctx.state = "ROUND_AWAIT_MOVES" =>
      \A i \in DOMAIN ctx.players : \A m \in Move :
         ctx.players[i].last_move # None =>
            LET r == make_move(ctx, ctx.players[i].pid, m)
            IN  r.ctx = ctx /\ r.raised = None /\ Types(r.emitted) = <<"MOVE_DUPLICATE">>

\* C5, as FSM.on_move keeps it
C5_FSM_DuplicateNoop ==
    tfsm.state = "ROUND_AWAIT_MOVES" =>
      \A i \in DOMAIN tfsm.ctx.players : \A m \in Move :
         tfsm.ctx.players[i].last_move # None =>
            on_move(tfsm, tfsm.ctx.players[i].pid, m).t = tfsm

\* C6: join(pid) of a pid that is already in the room changes nothing: room
\* state, roundId and every participant's state, lastMove and score stay.
C6_RejoinChangesNothing ==
    [][(/\ called' = "player_join"
        /\ raised' = None
        /\ Len(ctx'.players) = Len(ctx.players))
       => ctx' = ctx]_vars

\* C7: the setReady(pid, true) that makes both participants ready starts the
\* round in the same step (roundId + 1, moves cleared, both READY, room
\* ROUND_AWAIT_MOVES, one ROUND_START with the new roundId), and no state has
\* both participants ready with the room still in READY_CHECK.
LastReadyStep ==
    /\ ctx.state = "READY_CHECK"
    /\ Len(ctx.players) = 2
    /\ \E i \in 1..2 :
          /\ ctx.players[i].state \in {"CONNECTED", "BETWEEN_ROUNDS"}
          /\ ctx.players[3 - i].state = "READY"
          /\ called' = "set_ready"
          /\ emitted' # <<>>
          /\ emitted'[1].type = "PLAYER_READY"
          /\ emitted'[1].pid = ctx.players[i].pid

C7_RoundStarted ==
    /\ ctx'.round_id = ctx.round_id + 1
    /\ LastMoves(ctx') = <<None, None>>
    /\ States(ctx') = <<"READY", "READY">>
    /\ Scores(ctx') = Scores(ctx)
    /\ ctx'.state = "ROUND_AWAIT_MOVES"
    /\ Types(emitted') = <<"PLAYER_READY", "ROUND_START">>
    /\ emitted'[2].round_id = ctx'.round_id
    /\ raised' = None

C7_NeverBothReadyInReadyCheck ==
    ~(ctx.state = "READY_CHECK" /\ Len(ctx.players) = 2
      /\ \A i \in 1..2 : ctx.players[i].state = "READY")

C7_AtomicRoundStart ==
    /\ [][LastReadyStep => C7_RoundStarted]_vars
    /\ []C7_NeverBothReadyInReadyCheck

\* a second round has been started over the moves of the first
C7_Witness ==
    /\ called = "set_ready"
    /\ Types(emitted) = <<"PLAYER_READY", "ROUND_START">>
    /\ ctx.round_id = 2
    /\ ctx.state = "ROUND_AWAIT_MOVES"

\* C8: a ready signal received while a round is awaiting moves is rejected: it
\* changes neither the round id nor any recorded move (a round starts only on
\* the readiness of both participants in READY_CHECK).
C8_ReadyMidRoundRejected ==
    [][(WReady /\ \E i \in DOMAIN cm.moves : cm.moves[i].v # None)
       => (cm'.round_id = cm.round_id /\ cm'.moves = cm.moves)]_vars

\* C8, as RoomFSM keeps it: roundId changes upwards only in the step of the
\* last ready signal in READY_CHECK, and set_ready in any other phase raises
\* and changes nothing.
C8_RoomFSM_RoundStartOnlyByReady ==
    /\ [][ctx'.round_id > ctx.round_id => LastReadyStep]_vars
    /\ [](ctx.state # "READY_CHECK" =>
            \A pid \in Pids, ready \in BOOLEAN :
               set_ready(ctx, pid, ready) = Raise(ctx, <<>>))

\* C9: roundTimeout in ROUND_AWAIT_MOVES gives the only participant who moved
\* exactly 1 point and the other none, gives nobody a point when neither moved,
\* and then ends the round as a resolution does: MATCH_OVER when a score has
\* reached wins_needed, READY_CHECK otherwise.
C9_TimeoutEffect ==
    LET movers == {i \in 1..2 : ctx.players[i].last_move # None}
    IN  /\ raised' = None
        /\ Len(ctx'.players) = 2
        /\ \A i \in 1..2 :
              /\ ctx'.players[i].pid = ctx.players[i].pid
              /\ ctx'.players[i].score =
                    ctx.players[i].score + (IF movers = {i} THEN 1 ELSE 0)
              /\ ctx'.players[i].state = "BETWEEN_ROUNDS"
        /\ ctx'.round_id = ctx.round_id
        /\ ctx'.state =
              IF \E i \in 1..2 : ctx'.players[i].score >= (ctx.best_of \div 2) + 1
              THEN "MATCH_OVER" ELSE "READY_CHECK"
        /\ Types(emitted') \in
              IF movers = {}
              THEN {<<"ROUND_TIMEOUT_DRAW", "ASK_READY">>, <<"ROUND_TIMEOUT_DRAW", "MATCH_OVER">>}
              ELSE {<<"ROUND_TIMEOUT_WIN", "ASK_READY">>, <<"ROUND_TIMEOUT_WIN", "MATCH_OVER">>}

C9_TimeoutForfeit ==
    [][(called' = "round_timeout" /\ ctx.state = "ROUND_AWAIT_MOVES" /\ Len(ctx.players) = 2)
       => C9_TimeoutEffect]_vars

\* a forfeit that ended the match
C9_Witness ==
    /\ called = "round_timeout"
    /\ Types(emitted) = <<"ROUND_TIMEOUT_WIN", "MATCH_OVER">>
    /\ ctx.state = "MATCH_OVER"
    /\ ctx.best_of = 3
    /\ \E i \in 1..2 : ctx.players[i].score = 2 /\ ctx.players[i].last_move # None
                       /\ ctx.players[3 - i].last_move = None

\* C10: a roundTimeout applied after both moves of the round were applied
\* changes nothing, and a round is scored once: every step that raises a score
\* ends the round it was awaiting moves for.
BothMovesApplied ==
    /\ Len(ctx.players) = 2
    /\ \A i \in 1..2 : ctx.players[i].last_move # None
    /\ ctx.state \in {"READY_CHECK", "MATCH_OVER"}

C10_TimeoutAfterResolutionNoop ==
    /\ [][(called' = "round_timeout" /\ BothMovesApplied)
          => (ctx' = ctx /\ emitted' = <<>>)]_vars
    /\ [][(\E i \in DOMAIN ctx.players : i \in DOMAIN ctx'.players
               /\ ctx'.players[i].pid = ctx.players[i].pid
               /\ ctx'.players[i].score > ctx.players[i].score)
          => (/\ ctx.state = "ROUND_AWAIT_MOVES"
              /\ ctx'.state \in {"READY_CHECK", "MATCH_OVER"}
              /\ ctx'.round_id = ctx.round_id
              /\ \A j \in DOMAIN ctx.players \cap DOMAIN ctx'.players :
                    ctx'.players[j].score <= ctx.players[j].score + 1)]_vars

\* the timeout has been refused on a round that both moves had resolved
C10_Witness ==
    /\ called = "round_timeout"
    /\ BothMovesApplied
    /\ raised = "TransitionError"
    /\ emitted = <<>>
    /\ ctx.last_result \notin {None, "draw"}

\* ---- vocabulary: the step of RoomFSM that resolves a round, by both moves or
\* by the timeout
ResolutionStep ==
    /\ called' \in {"make_move", "round_timeout"}
    /\ CountType(emitted', "ROUND_RESULT") + CountType(emitted', "ROUND_TIMEOUT_WIN")
         + CountType(emitted', "ROUND_TIMEOUT_DRAW") > 0

ReachedWinsNeeded(c) ==
    {i \in DOMAIN c.players : c.players[i].score >= (c.best_of \div 2) + 1}

\* C11: after a round resolution that leaves a score at wins_needed the room
\* is MATCH_OVER, both participants are BETWEEN_ROUNDS and the match-over
\* notification names the winner. FSM.on_move leaves the room in ROUND_RESULT
\* (transient) and FSM.next_round_or_over is the step that ends the match:
\* what it leaves must be MATCH_OVER with both BETWEEN_ROUNDS.
C11_MatchOverOnWinningScore ==
    /\ tfsm.state = "MATCH_OVER" =>
          /\ ReachedWinsNeeded(tfsm.ctx) # {}
          /\ \A i \in DOMAIN tfsm.ctx.players :
                tfsm.ctx.players[i].state = "BETWEEN_ROUNDS"
    /\ (/\ tfsm.state = "ROUND_RESULT"
        /\ Len(tfsm.ctx.players) = 2
        /\ \A i \in 1..2 : tfsm.ctx.players[i].last_move # None
        /\ ReachedWinsNeeded(tfsm.ctx) # {})
       => LET r == next_round_or_over(tfsm)
          IN  /\ r.t.state = "MATCH_OVER"
              /\ r.t.ctx.round_id = tfsm.ctx.round_id
              /\ \A i \in 1..2 : r.t.ctx.players[i].state = "BETWEEN_ROUNDS"

\* C11, as RoomFSM keeps it: the resolving call itself ends in MATCH_OVER with
\* both BETWEEN_ROUNDS and emits exactly one MATCH_OVER, last, whose winner
\* has reached wins_needed and which carries the scores and the round id.
C11_RoomFSM_MatchOver ==
    [][(ResolutionStep /\ ReachedWinsNeeded(ctx') # {}) =>
         /\ ctx'.state = "MATCH_OVER"
         /\ States(ctx') = <<"BETWEEN_ROUNDS", "BETWEEN_ROUNDS">>
         /\ CountType(emitted', "MATCH_OVER") = 1
         /\ LET e == emitted'[Len(emitted')]
            IN  /\ e.type = "MATCH_OVER"
                /\ \E i \in ReachedWinsNeeded(ctx') : e.winner = ctx'.players[i].pid
                /\ e.score = score_view(ctx')
                /\ e.round_id = ctx'.round_id
         /\ raised' = None]_vars

\* scenario A of section 8: best_of 3, two wins of the first participant
C11_RoomFSM_ScenarioA ==
    /\ ctx.best_of = 3
    /\ ctx.state = "MATCH_OVER"
    /\ ctx.round_id = 2
    /\ Scores(ctx) = <<2, 0>>
    /\ LastMoves(ctx) = <<"paper", "rock">>
    /\ emitted[Len(emitted)].type = "MATCH_OVER"
    /\ emitted[Len(emitted)].winner = ctx.players[1].pid

\* C12: a round that does not end the match is not followed by an automatic
\* round start: what the engine does next by itself changes neither roundId
\* nor puts the room in ROUND_AWAIT_MOVES. FSM.next_round_or_over is that
\* next step of FSM.
C12_NoAutoStart ==
    (/\ tfsm.state = "ROUND_RESULT"
     /\ Len(tfsm.ctx.players) = 2
     /\ \A i \in 1..2 : tfsm.ctx.players[i].last_move # None
     /\ ReachedWinsNeeded(tfsm.ctx) = {})
    => LET t == next_round_or_over(tfsm).t
       IN  /\ t.ctx.round_id = tfsm.ctx.round_id
           /\ t.state # "ROUND_AWAIT_MOVES"

\* C12, as RoomFSM keeps it: the resolving call of a round that leaves every
\* score below wins_needed ends in READY_CHECK with both BETWEEN_ROUNDS and
\* the same roundId, and from there only the last of two ready signals moves
\* the room to ROUND_AWAIT_MOVES.
C12_RoomFSM_NoAutoStart ==
    /\ [][(ResolutionStep /\ ReachedWinsNeeded(ctx') = {}) =>
            /\ ctx'.state = "READY_CHECK"
            /\ States(ctx') = <<"BETWEEN_ROUNDS", "BETWEEN_ROUNDS">>
            /\ ctx'.round_id = ctx.round_id
            /\ emitted'[Len(emitted')].type = "ASK_READY"]_vars
    /\ [][ctx'.state = "ROUND_AWAIT_MOVES" /\ ctx.state # "ROUND_AWAIT_MOVES"
          => LastReadyStep]_vars

\* C13: an action whose precondition does not hold fails with an error and
\* changes nothing; it is never silently accepted or ignored. For FSM: a move
\* outside ROUND_AWAIT_MOVES, a move by a pid that is not in the room, and an
\* event the transition table has no entry for.
C13_IllegalActionFails ==
    /\ \A pid \in Pids : \A m \in Move :
          (tfsm.state # "ROUND_AWAIT_MOVES" /\ HasPid(tfsm.ctx, pid)) =>
             LET r == on_move(tfsm, pid, m)
             IN  r.raised # None /\ r.t = tfsm
    /\ \A pid \in Pids : \A m \in Move :
          (tfsm.state = "ROUND_AWAIT_MOVES" /\ ~HasPid(tfsm.ctx, pid)) =>
             LET r == on_move(tfsm, pid, m)
             IN  r.raised # None /\ r.t = tfsm
    /\ \A event \in ClientEvent :
          (tfsm.ctx.players # <<>> /\ <<tfsm.state, event>> \notin DOMAIN Table) =>
             LET r == send(tfsm, event)
             IN  r.raised # None /\ r.t = tfsm

\* C13, as RoomFSM keeps it: every call that raises leaves the context as it
\* was and emits nothing, and each of the listed illegal actions raises.
C13_RoomFSM_IllegalActionFails ==
    /\ [][raised' # None => (ctx' = ctx /\ emitted' = <<>>)]_vars
    /\ [](\A pid \in Pids :
            /\ \A ready \in BOOLEAN :
                  (ctx.state # "READY_CHECK" \/ ~HasPid(ctx, pid)) =>
                     set_ready(ctx, pid, ready) = Raise(ctx, <<>>)
            /\ \A m \in Move :
                  (ctx.state # "ROUND_AWAIT_MOVES" \/ ~HasPid(ctx, pid)) =>
                     make_move(ctx, pid, m) = Raise(ctx, <<>>))
    /\ [](ctx.state # "ROUND_AWAIT_MOVES" => round_timeout(ctx) = Raise(ctx, <<>>))
    /\ [](Len(ctx.players) # 2 => restart_match(ctx) = Raise(ctx, <<>>))

\* C13: the one action of RoomFSM that is ignored without an error is the
\* leave of a pid that is not in the room
C13_RoomFSM_LeaveOfAbsentIgnored ==
    \A pid \in Pids : ~HasPid(ctx, pid) => player_leave(ctx, pid) = Ok(ctx, <<>>)

\* C14: a join by a third pid while the room holds two participants is
\* rejected with an error and changes nothing: the two participants, the room
\* state and roundId stay as they were.
C14_ThirdJoinRejected ==
    \A pid \in Pids :
       (Len(tfsm.ctx.players) = 2 /\ ~HasPid(tfsm.ctx, pid)) =>
          LET r == on_player_join(tfsm, pid)
          IN  r.raised # None /\ r.t = tfsm

\* C14, as RoomFSM keeps it: player_join of a third pid raises TransitionError
\* ("Room is full"), emits nothing and leaves the context as it was.
C14_RoomFSM_ThirdJoinRejected ==
    /\ [](\A pid \in Pids :
            (Len(ctx.players) = 2 /\ ~HasPid(ctx, pid)) =>
               player_join(ctx, pid) = Raise(ctx, <<>>))
    /\ [][(called' = "player_join" /\ Len(ctx.players) = 2
           /\ ctx'.players # <<>> /\ emitted' = <<>>)
          => (raised' = "TransitionError" /\ ctx' = ctx)]_vars

\* C15: leave(pid) by one of two participants, in whatever phase the room is
\* (READY_CHECK, ROUND_AWAIT_MOVES, MATCH_OVER), removes that participant,
\* leaves the other one with state CONNECTED and puts the room in ONE_WAITING.
C15_LeaveEffect(c, i, r) ==
    /\ r.raised = None
    /\ r.ctx.state = "ONE_WAITING"
    /\ r.ctx.players = <<[c.players[3 - i] EXCEPT !.state = "CONNECTED"]>>
    /\ r.ctx.round_id = c.round_id
    /\ Types(r.emitted) = <<"MATCH_ABORTED", "PLAYER_LEFT">>
    /\ r.emitted[2].pid = c.players[i].pid

C15_LeaveOfOneOfTwo ==
    /\ [](Len(ctx.players) = 2 =>
            /\ ctx.state \in {"READY_CHECK", "ROUND_AWAIT_MOVES", "MATCH_OVER"}
            /\ \A i \in 1..2 :
                  C15_LeaveEffect(ctx, i, player_leave(ctx, ctx.players[i].pid)))
    /\ [][(called' = "player_leave" /\ Len(ctx.players) = 2 /\ emitted' # <<>>) =>
            \E i \in 1..2 :
               C15_LeaveEffect(ctx, i, [ctx |-> ctx', emitted |-> emitted',
                                        raised |-> raised'])]_vars

\* a participant who had moved and was waiting for the other one is left alone
C15_Witness ==
    /\ called = "player_leave"
    /\ ctx.state = "ONE_WAITING"
    /\ Len(ctx.players) = 1
    /\ ctx.players[1].state = "CONNECTED"
    /\ ctx.players[1].last_move # None
    /\ ctx.round_id = 1
    /\ Types(emitted) = <<"MATCH_ABORTED", "PLAYER_LEFT">>

\* C15, as FSM.on_leave keeps it
C15_FSM_LeaveOfOneOfTwo ==
    Len(tfsm.ctx.players) = 2 =>
       \A i \in 1..2 :
          LET r == on_leave(tfsm, tfsm.ctx.players[i].pid)
          IN  /\ r.raised = None
              /\ r.t.state = "ONE_WAITING"
              /\ r.t.ctx.players = <<[tfsm.ctx.players[3 - i] EXCEPT !.state = "CONNECTED"]>>

\* C16: the leave that removes the last participant leaves the room EMPTY with
\* no participants, roundId = 0 and lastResult cleared, and the participant who
\* joins an empty room starts with score 0 in round 0.
C16_LastLeaveResets ==
    /\ [](Len(ctx.players) = 1 =>
            LET r == player_leave(ctx, ctx.players[1].pid)
            IN  /\ r.raised = None
                /\ r.ctx = RoomCtx(ctx.best_of)
                /\ Types(r.emitted) = <<"PLAYER_LEFT">>)
    /\ [][(called' = "player_leave" /\ Len(ctx.players) = 1 /\ emitted' # <<>>)
          => ctx' = RoomCtx(ctx.best_of)]_vars
    /\ [](ctx.players = <<>> => ctx = RoomCtx(ctx.best_of))
    /\ [][(called' = "player_join" /\ ctx.players = <<>>) =>
            /\ Len(ctx'.players) = 1
            /\ ctx'.players[1].score = 0
            /\ ctx'.players[1].last_move = None
            /\ ctx'.round_id = 0]_vars

\* the last participant has left
C16_Witness ==
    /\ called = "player_leave"
    /\ Types(emitted) = <<"PLAYER_LEFT">>
    /\ ctx.state = "EMPTY"
    /\ ctx.players = <<>>
    /\ ctx.round_id = 0

\* a lone participant who still has a score and a round id from the match the
\* other one left: the state the last leave resets
C16_LoneParticipantWithScore ==
    /\ Len(ctx.players) = 1
    /\ ctx.players[1].score > 0
    /\ ctx.round_id > 0
    /\ ctx.last_result # None

\* C16, as FSM.on_leave keeps it
C16_FSM_LastLeaveResets ==
    Len(tfsm.ctx.players) = 1 =>
       LET r == on_leave(tfsm, tfsm.ctx.players[1].pid)
       IN  /\ r.t.state = "EMPTY"
           /\ r.t.ctx.players = <<>>
           /\ r.t.ctx.round_id = 0

\* C17: restartMatch with exactly two participants sets both scores and
\* roundId to 0, puts both participants in CONNECTED with no lastMove and the
\* room in READY_CHECK; with zero or one participant it raises and changes
\* nothing.
C17_Restarted(c, r) ==
    /\ r.raised = None
    /\ r.ctx.state = "READY_CHECK"
    /\ r.ctx.round_id = 0
    /\ r.ctx.best_of = c.best_of
    /\ r.ctx.players = <<PlayerCtx(c.players[1].pid, "CONNECTED"),
                         PlayerCtx(c.players[2].pid, "CONNECTED")>>
    /\ Types(r.emitted) = <<"MATCH_RESTARTED">>

C17_RestartMatch ==
    /\ [](Len(ctx.players) = 2 => C17_Restarted(ctx, restart_match(ctx)))
    /\ [](Len(ctx.players) # 2 => restart_match(ctx) = Raise(ctx, <<>>))
    /\ [][called' = "restart_match" =>
            IF Len(ctx.players) = 2
            THEN C17_Restarted(ctx, [ctx |-> ctx', emitted |-> emitted', raised |-> raised'])
            ELSE raised' = "TransitionError" /\ ctx' = ctx /\ emitted' = <<>>]_vars

\* a match that was over has been restarted
C17_Witness ==
    /\ called = "restart_match"
    /\ raised = None
    /\ Types(emitted) = <<"MATCH_RESTARTED">>
    /\ ctx.state = "READY_CHECK"
    /\ ctx.round_id = 0
    /\ Scores(ctx) = <<0, 0>>
    /\ States(ctx) = <<"CONNECTED", "CONNECTED">>

\* the state restartMatch is meant for: a match that is over
C17_MatchOverState ==
    /\ ctx.state = "MATCH_OVER"
    /\ ctx.round_id >= 2
    /\ \E i \in 1..2 : ctx.players[i].score = 2

\* C18: abort() succeeds in every room state and always leaves the room EMPTY
\* with no participants, roundId = 0 and lastResult cleared.
C18_AbortResets ==
    /\ [](abort(ctx).raised = None /\ abort(ctx).ctx = RoomCtx(ctx.best_of))
    /\ [][called' = "abort" =>
            /\ raised' = None
            /\ ctx'.state = "EMPTY"
            /\ ctx'.players = <<>>
            /\ ctx'.round_id = 0
            /\ ctx'.last_result = None
            /\ Types(emitted') = <<"ROOM_ABORTED">>]_vars

\* the room has been aborted
C18_Witness ==
    /\ called = "abort"
    /\ raised = None
    /\ Types(emitted) = <<"ROOM_ABORTED">>
    /\ ctx = RoomCtx(ctx.best_of)

\* a state abort has something to clear in: a round awaited in a match that
\* has a result already
C18_MidMatchState ==
    /\ ctx.state = "ROUND_AWAIT_MOVES"
    /\ ctx.round_id >= 2
    /\ ctx.last_result # None
    /\ \E i \in 1..2 : ctx.players[i].last_move # None /\ ctx.players[i].state = "MOVED"

\* C19: the room state is recomputable from the participant count: EMPTY iff
\* 0 participants, ONE_WAITING iff 1, and a match phase iff exactly 2 (for FSM
\* the match phases are ROUND_AWAIT_MOVES, the transient ROUND_RESULT and
\* MATCH_OVER).
C19_StateMatchesCount ==
    /\ tfsm.state = "EMPTY" <=> Len(tfsm.ctx.players) = 0
    /\ tfsm.state = "ONE_WAITING" <=> Len(tfsm.ctx.players) = 1
    /\ tfsm.state \in {"ROUND_AWAIT_MOVES", "ROUND_RESULT", "MATCH_OVER"}
          <=> Len(tfsm.ctx.players) = 2

\* C19, as RoomFSM keeps it
C19_RoomFSM_StateMatchesCount ==
    /\ ctx.state = "EMPTY" <=> Len(ctx.players) = 0
    /\ ctx.state = "ONE_WAITING" <=> Len(ctx.players) = 1
    /\ ctx.state \in {"READY_CHECK", "ROUND_AWAIT_MOVES", "MATCH_OVER"}
          <=> Len(ctx.players) = 2

\* C20: a participant's lastMove is non-empty only while a round is awaited
\* or resolved: in EMPTY, ONE_WAITING, READY_CHECK and MATCH_OVER every
\* participant's lastMove is empty.
C20_LastMoveOnlyDuringRound ==
    ctx.state \in {"EMPTY", "ONE_WAITING", "READY_CHECK", "MATCH_OVER"} =>
       \A i \in DOMAIN ctx.players : ctx.players[i].last_move = None

\* C20, as RoomFSM keeps it: last_move is cleared when a round starts and when
\* the match counters are reset, and between a resolution and the next round
\* start it still holds the move of the round that was resolved.
C20_RoomFSM_ClearedAtRoundStart ==
    /\ [][(ctx'.round_id # ctx.round_id) =>
            \A i \in DOMAIN ctx'.players : ctx'.players[i].last_move = None]_vars
    /\ [](ctx.round_id = 0 =>
            \A i \in DOMAIN ctx.players : ctx.players[i].last_move = None)
    /\ [][(ResolutionStep /\ called' = "make_move") =>
            \A i \in DOMAIN ctx'.players : ctx'.players[i].last_move # None]_vars

\* C20, for FSM, where it fails as well: on_leave keeps the last_move of the
\* participant it leaves alone, and MATCH_OVER keeps the moves of the last round
C20_FSM_LastMoveOnlyDuringRound ==
    tfsm.state \in {"EMPTY", "ONE_WAITING", "MATCH_OVER"} =>
       \A i \in DOMAIN tfsm.ctx.players : tfsm.ctx.players[i].last_move = None

\* C21: scores are non-negative and never decrease within a match: a step that
\* is not a reset (restart_match, abort, the room becoming empty) lowers no
\* participant's score, and raises at most one participant's score, by 1.
ScoreOf(c, pid) == Player(c, pid).score

C21_ScoresMonotone ==
    /\ [](\A i \in DOMAIN ctx.players : ctx.players[i].score >= 0)
    /\ [][(called' \notin {"restart_match", "abort"} /\ ctx'.players # <<>>) =>
            LET kept == {pid \in Pids : HasPid(ctx, pid) /\ HasPid(ctx', pid)}
                up == {pid \in kept : ScoreOf(ctx', pid) > ScoreOf(ctx, pid)}
            IN  /\ \A pid \in kept : ScoreOf(ctx', pid) >= ScoreOf(ctx, pid)
                /\ Cardinality(up) <= 1
                /\ \A pid \in up : ScoreOf(ctx', pid) = ScoreOf(ctx, pid) + 1
                /\ \A pid \in Pids : (HasPid(ctx', pid) /\ ~HasPid(ctx, pid)) =>
                                        ScoreOf(ctx', pid) = 0]_vars

\* both participants have won a round of the same match
C21_Witness ==
    /\ called = "make_move"
    /\ Len(ctx.players) = 2
    /\ Scores(ctx) = <<1, 1>>
    /\ ctx.round_id = 2
    /\ ctx.best_of = 3
    /\ ctx.state = "READY_CHECK"

\* C21, as ConnectionManager keeps it: a score changes only upwards, by 1 and
\* for one participant per handler, except in the round_start that announces
\* MATCH_OVER and resets every score to 0.
C21_Ws_ScoresMonotone ==
    [][(\A i \in DOMAIN sent' : sent'[i].type # "MATCH_OVER") =>
         LET up == {i \in DOMAIN cm.scores :
                      DGet(cm'.scores, cm.scores[i].k) # cm.scores[i].v}
         IN  /\ \A i \in DOMAIN cm.scores : DHas(cm'.scores, cm.scores[i].k)
             /\ Cardinality(up) <= 1
             /\ \A i \in up : DGet(cm'.scores, cm.scores[i].k) = cm.scores[i].v + 1]_vars

\* C22: the operations on a room are serialized through the room's Lock: while
\* one operation holds the Lock and is suspended, no other operation changes
\* the room's state (players, round id, moves, scores).
RoomPart(m) == <<m.players, m.round_id, m.moves, m.scores>>

C22_SerializedByLock ==
    [][(lock # None /\ lock' = lock /\ pc'[lock] = pc[lock]) =>
         RoomPart(cm') = RoomPart(cm)]_vars

\* C22, what the interleaving costs: every registered participant has a score
\* and a move entry. It holds when the handlers run one after the other.
C22_RegisteredHaveEntries ==
    \A i \in DOMAIN cm.players :
        DHas(cm.scores, cm.players[i].k) /\ DHas(cm.moves, cm.players[i].k)

\* C23: no coroutine is suspended in a send while it holds the room's Lock.
C23_NoSendUnderLock ==
    \A w \in Conns : pc[w].at \in SendPositions => lock # w

\* C23, the sends that are made outside the Lock: AUTH_OK to a participant who
\* joined, and nothing else
C23_OnlyAuthOkOutsideLock ==
    \A w \in Conns : (pc[w].at \in SendPositions /\ lock # w) =>
                        pc[w].at = "joined_send_auth_ok"

\* C24: a replayed MOVE (same participant, same payload, no round started in
\* between) is acknowledged to its sender and stopped before the engine: it
\* changes nothing in the room and nobody else is notified.
C24_ReplayStopped ==
    \A p \in Pids, raw \in RawMove :
        (ConnOf[p] \in cm.active /\ DHas(cm.players, p) /\ lower_strip[raw] \in Move) =>
            LET first == ws_move(cm, ConnOf[p], p, raw)
                replay == ws_move(first.cm, ConnOf[p], p, raw)
            IN  first.raised = None =>
                    /\ replay.cm = first.cm
                    /\ \A i \in DOMAIN replay.sent : replay.sent[i].to \in {p, ConnOf[p]}

\* C24, the least that holds of a replay: while the sender waits for the
\* opponent's move, the replay leaves the room as the first delivery left it
C24_Ws_ReplayWhileWaiting ==
    \A p \in Pids, raw \in RawMove :
        (ConnOf[p] \in cm.active /\ DHas(cm.players, p) /\ lower_strip[raw] \in Move) =>
            LET first == ws_move(cm, ConnOf[p], p, raw)
                replay == ws_move(first.cm, ConnOf[p], p, raw)
            IN  (first.raised = None /\ DGet(first.cm.moves, p) # None) =>
                    replay.cm = first.cm

\* C25: judge(a, b) is total on Move x Move and equals the reference table
\* (draw when a = b, win when a beats b, lose otherwise), in rules.py and in
\* ws.py alike; a round FSM.on_move resolves reports what the table says.
JudgeTable(a, b) ==
    IF a = b THEN "draw" ELSE IF <<a, b>> \in Beats THEN "win" ELSE "lose"

C25_JudgeMatchesTable ==
    /\ \A a \in Move, b \in Move :
         /\ judge(a, b) \in Outcome
         /\ judge(a, b) = JudgeTable(a, b)
         /\ ws_judge(a, b) = JudgeTable(a, b)
    /\ tret.payload # <<>> =>
         LET ps == tfsm.ctx.players
             out == JudgeTable(ps[1].last_move, ps[2].last_move)
         IN  /\ tret.payload[1].outcome = (IF out = "draw" THEN "draw" ELSE "win")
             /\ tret.payload[1].winner = (CASE out = "win" -> ps[1].pid
                                            [] out = "lose" -> ps[2].pid
                                            [] OTHER -> None)

\* on_move has resolved rock against paper for the second participant
C25_Witness ==
    /\ tret.payload # <<>>
    /\ tfsm.state = "ROUND_RESULT"
    /\ LastMoves(tfsm.ctx) = <<"rock", "paper">>
    /\ tret.payload[1].winner = tfsm.ctx.players[2].pid

\* C26: judge is complementary under swapping its arguments: of two distinct
\* moves one wins and the other loses, and a draw is a draw from both sides;
\* the moves receive_move has recorded are among those this is said of.
RecordedMoves == {cm.moves[i].v : i \in DOMAIN cm.moves} \ {None}

C26_JudgeComplementary ==
    \A a \in Move \cup RecordedMoves, b \in Move :
        /\ a # b => /\ {ws_judge(a, b), ws_judge(b, a)} = {"win", "lose"}
                    /\ {judge(a, b), judge(b, a)} = {"win", "lose"}
        /\ ws_judge(a, b) = "draw" <=> ws_judge(b, a) = "draw"
        /\ judge(a, b) = "draw" <=> judge(b, a) = "draw"

\* receive_move has judged two distinct moves: one participant scored
C26_Witness ==
    /\ Len(sent) >= 2
    /\ \A i \in DOMAIN sent : sent[i].type = "RESULT"
    /\ Len(cm.scores) = 2
    /\ cm.scores[1].v = 0
    /\ cm.scores[2].v = 1

\* C27: with bestOf = 5 and the score at 0:0, a round in which both
\* participants submit the same move leaves the score at 0:0 and the room in
\* READY_CHECK; however many such rounds follow each other, the room is never
\* in MATCH_OVER with the score at 0:0.
C27_DrawsDoNotAdvance ==
    /\ [](ctx.best_of = DefaultBestOf)
    /\ [][(SecondMoveStep /\ Scores(ctx) = <<0, 0>>
             /\ ctx'.players[1].last_move = ctx'.players[2].last_move) =>
            /\ Scores(ctx') = <<0, 0>>
            /\ ctx'.state = "READY_CHECK"
            /\ ctx'.round_id = ctx.round_id
            /\ ctx'.last_result = "draw"
            /\ Types(emitted') = <<"MOVE_ACCEPTED", "ROUND_RESULT", "ASK_READY">>]_vars
    /\ []((Len(ctx.players) = 2 /\ Scores(ctx) = <<0, 0>>) => ctx.state # "MATCH_OVER")

\* the third drawn round in a row (rock against rock) has just been resolved
C27_Witness ==
    /\ called = "make_move"
    /\ ctx.best_of = 5
    /\ ctx.round_id = 3
    /\ Len(ctx.players) = 2
    /\ Scores(ctx) = <<0, 0>>
    /\ LastMoves(ctx) = <<"rock", "rock">>
    /\ ctx.last_result = "draw"
    /\ ctx.state = "READY_CHECK"

C29_DisconnectIsLeave ==
    [][\A w \in Conns :
         (w \in cm.active /\ w \notin cm'.active
            /\ DHas(cm.players, PidOf(w)) /\ Len(cm.players) = 2) =>
              /\ ~DHas(cm'.players, PidOf(w))
              /\ ~room_is_ready(cm')]_vars

\* C29, what follows from it: a round is announced only while two registered
\* participants are connected
C29_Ws_RoundNeedsTwoConnected ==
    (\E i \in DOMAIN sent : sent[i].type = "ROUND_START") =>
        Cardinality({i \in DOMAIN cm.players : cm.players[i].v \in cm.active}) >= 2

\* C30: a match is bounded by bestOf: a decisive round (a win or a forfeit)
\* raises the sum of the two scores by exactly 1 and any other round leaves it,
\* a round that does not end the match leaves the sum below bestOf, the sum
\* never exceeds bestOf, and when both participants keep readying and moving
\* MATCH_OVER is eventually reached.
Decisive(evs) ==
    \E i \in DOMAIN evs : /\ evs[i].type \in {"ROUND_RESULT", "ROUND_TIMEOUT_WIN"}
                          /\ evs[i].outcome = "win"

C30_MatchBounded ==
    /\ [][ResolutionStep =>
            /\ ScoreSum(ctx') = ScoreSum(ctx) + (IF Decisive(emitted') THEN 1 ELSE 0)
            /\ ctx'.state # "MATCH_OVER" => ScoreSum(ctx') < ctx'.best_of
            /\ ctx'.state = "MATCH_OVER" => ReachedWinsNeeded(ctx') # {}]_vars
    /\ [][/\ ScoreSum(ctx') <= ctx'.best_of
          /\ ctx'.round_id <= ctx'.best_of + MaxDraws]_vars
    /\ <>(ctx.state = "MATCH_OVER")

\* a best-of-3 match that took all three decisive rounds, and a draw
C30_Witness ==
    /\ ctx.state = "MATCH_OVER"
    /\ ctx.best_of = 3
    /\ Scores(ctx) = <<1, 2>>
    /\ ctx.round_id = 4

\* C30 where participants also leave, rejoin, restart and abort: the sum of
\* the scores still moves by 1 per decisive round and by 0 per other round
C30_RoomFSM_SumPerRound ==
    [][ResolutionStep =>
         ScoreSum(ctx') = ScoreSum(ctx) + (IF Decisive(emitted') THEN 1 ELSE 0)]_vars

\* C31: the readiness handshake cannot get stuck: whenever the room is in
\* READY_CHECK both participants are CONNECTED, BETWEEN_ROUNDS or READY, and
\* one set_ready(true) from each of them leads to ROUND_AWAIT_MOVES.
ReadyAccepted == {"CONNECTED", "BETWEEN_ROUNDS", "READY"}

C31_HandshakeNeverStuck ==
    ctx.state = "READY_CHECK" =>
        /\ Len(ctx.players) = 2
        /\ \A i \in 1..2 : ctx.players[i].state \in ReadyAccepted
        /\ LET r1 == set_ready(ctx, ctx.players[1].pid, TRUE)
               r2 == IF r1.ctx.state = "READY_CHECK"
                     THEN set_ready(r1.ctx, ctx.players[2].pid, TRUE) ELSE r1
           IN  r1.raised = None /\ r2.raised = None
               /\ r2.ctx.state = "ROUND_AWAIT_MOVES"

\* C31, what RoomFSM keeps: only the join of a participant who is already in
\* the room puts the room in READY_CHECK with a participant who cannot ready
C31_RoomFSM_StuckOnlyByRejoin ==
    [][(ctx'.state = "READY_CHECK"
          /\ ~(called' = "player_join" /\ CountType(emitted', "PLAYER_REJOINED") > 0)) =>
         \A i \in DOMAIN ctx'.players :
            ctx'.players[i].state \notin ReadyAccepted =>
               /\ ctx.state = "READY_CHECK"
               /\ HasPid(ctx, ctx'.players[i].pid)
               /\ Player(ctx, ctx'.players[i].pid).state = ctx'.players[i].state]_vars

\* C32: the match winner is unambiguous: in every reachable state at most one
\* participant has a score of wins_needed or more, and the winner a MATCH_OVER
\* event names is that participant and has a strictly higher score than the
\* opponent.
C32_WinnerUnambiguous ==
    /\ Cardinality(ReachedWinsNeeded(ctx)) <= 1
    /\ \A e \in DOMAIN emitted :
         emitted[e].type = "MATCH_OVER" =>
            \E i \in DOMAIN ctx.players :
               /\ ctx.players[i].pid = emitted[e].winner
               /\ ReachedWinsNeeded(ctx) = {i}
               /\ \A j \in DOMAIN ctx.players \ {i} :
                     ctx.players[i].score > ctx.players[j].score

\* C32 for FSM of transitions.py
C32_FSM_WinnerUnambiguous ==
    Cardinality(ReachedWinsNeeded(tfsm.ctx)) <= 1

\* C32, what RoomFSM keeps: in a match that started at 0:0 and in which nobody
\* left or rejoined, one participant at most reaches wins_needed
C32_Match_WinnerUnambiguous ==
    /\ Cardinality(ReachedWinsNeeded(ctx)) <= 1
    /\ ctx.state = "MATCH_OVER" =>
         \E i \in 1..2 : /\ ReachedWinsNeeded(ctx) = {i}
                         /\ ctx.players[i].score > ctx.players[3 - i].score
                         /\ match_winner_pid(ctx) = ctx.players[i].pid


\* C33: a match against a new opponent starts from a clean slate: whenever a
\* second participant joins a room in ONE_WAITING and the room enters
\* READY_CHECK, both scores are 0, round_id is 0 and no move is recorded.
C33_CleanSlate ==
    [][(called' = "player_join" /\ ctx.state = "ONE_WAITING"
          /\ ctx'.state = "READY_CHECK") =>
         /\ ctx'.round_id = 0
         /\ \A i \in DOMAIN ctx'.players :
               ctx'.players[i].score = 0 /\ ctx'.players[i].last_move = None]_vars

\* C33 for FSM of transitions.py, which starts the first round on the join:
\* the round the newcomer's join starts is round 1, at 0:0
C33_FSM_CleanSlate ==
    [][(tfsm.state = "ONE_WAITING" /\ Len(tfsm.ctx.players) = 1
          /\ Len(tfsm'.ctx.players) = 2) =>
         /\ tfsm'.ctx.round_id = 1
         /\ \A i \in 1..2 : tfsm'.ctx.players[i].score = 0]_vars

\* C33, what RoomFSM keeps: the newcomer is at 0 with no move, and the room is
\* clean after the last participant has left
C33_RoomFSM_NewcomerAndEmptyClean ==
    /\ [][(called' = "player_join" /\ ctx.state = "ONE_WAITING"
             /\ ctx'.state = "READY_CHECK") =>
            /\ ctx'.players[2].score = 0
            /\ ctx'.players[2].last_move = None
            /\ ctx'.players[1] = [ctx.players[1] EXCEPT !.state = "CONNECTED"]
            /\ ctx'.round_id = ctx.round_id]_vars
    /\ [][(called' = "player_leave" /\ ctx.players # <<>> /\ ctx'.players = <<>>) =>
            ctx'.round_id = 0 /\ ctx'.state = "EMPTY"]_vars


\* C34: a late timeout never affects a later round: when the timer started for
\* round k expires while a later round is awaiting moves (so round k has been
\* resolved and round k+1 has started), the round_timeout() call changes no
\* score and does not resolve or forfeit the round in progress.
C34_LateTimeoutHarmless ==
    [][\A k \in armed \ armed' :
          (called' = "round_timeout" /\ ctx.state = "ROUND_AWAIT_MOVES"
             /\ k < ctx.round_id) =>
             /\ Scores(ctx') = Scores(ctx)
             /\ ctx'.state = "ROUND_AWAIT_MOVES"
             /\ ctx'.round_id = ctx.round_id
             /\ CountType(emitted', "ROUND_TIMEOUT_WIN") = 0
             /\ CountType(emitted', "ROUND_TIMEOUT_DRAW") = 0]_vars

\* C34, what RoomFSM keeps: a timer that expires while no round is awaiting
\* moves is rejected and changes nothing, and the timer of the round in progress
\* resolves that round
C34_RoomFSM_TimerOutsideRound ==
    /\ [][\A k \in armed \ armed' :
             ctx.state # "ROUND_AWAIT_MOVES" => (ctx' = ctx /\ raised' # None)]_vars
    /\ [][\A k \in armed \ armed' :
             (ctx.state = "ROUND_AWAIT_MOVES" /\ k = ctx.round_id) =>
                /\ ctx'.state \in {"READY_CHECK", "MATCH_OVER"}
                /\ ctx'.round_id = k]_vars

\* the connections self.rooms holds for the room
Registered(r) ==
    IF r.cur = 0 THEN {} ELSE {r.heap[r.cur][j] : j \in DOMAIN r.heap[r.cur]}
\* the websockets whose send_json raised in the broadcast
FailedSocks(b) == {b.items[j].v : j \in {n \in DOMAIN b.items :
                                          \E m \in DOMAIN b.dead : b.dead[m] = b.items[n].k}}

\* C35: broadcast attempts delivery to every connection registered when it
\* started, even if some sends fail, and removes from the room only connections
\* whose send failed: a connection registered for the same pid while the
\* broadcast was suspended is still registered when the broadcast finishes.
C35_BroadcastRemovesOnlyFailed ==
    [][(bc.at = "send" /\ bc'.at = "done") =>
         /\ \A j \in DOMAIN bc'.items : bc'.items[j].v \in bc'.tried
         /\ \A e \in Registered(rooms) :
               e \notin Registered(rooms') => e.v \in FailedSocks(bc')]_vars

\* C35, what broadcast keeps: every connection of its snapshot is tried, a pid
\* is removed only if the send to the connection the snapshot held for it
\* failed, and without a connect during the broadcast only failed connections
\* are removed
C35_Broadcast_TriesAllRemovesDeadPids ==
    [][(bc.at = "send" /\ bc'.at = "done") =>
         /\ \A j \in DOMAIN bc'.items : bc'.items[j].v \in bc'.tried
         /\ \A e \in Registered(rooms) :
               e \notin Registered(rooms') =>
                  /\ \E m \in DOMAIN bc'.dead : bc'.dead[m] = e.k
                  /\ (\E j \in DOMAIN bc'.items : bc'.items[j] = e)
                        => e.v \in FailedSocks(bc')]_vars

====
